---- MODULE Spec2Model ----
(***************************************************************************)
(* GEE-TMMC walker of src/tmmc-ljpoly-rg.py (class GEE_TMMC_Simulator_Cell4 *)
(* and its energy kernels) as a state machine.                              *)
(*                                                                          *)
(* Arithmetic.  Every real of the program is held as an exact rational      *)
(* <<numerator, denominator>> in lowest terms, denominator > 0.  The 1e10   *)
(* overlap penalty does not fit TLC's 32-bit integers, so an energy         *)
(* is a pair [pen, val] standing for pen * 1e10 + val.                      *)
(*                                                                          *)
(* Configuration.  The runs explored use target_temperature = 10 / ln 2     *)
(* (so that exp(-beta * x) = 2^(-x/10) and exp(-beta * 20) = 1/4),          *)
(* eps_ms = 1215/8, sigma_ms = sigma_ss = 1, box_side_length = 3, and       *)
(* coordinates on the integer points of the x axis.  With these values the  *)
(* soft-core pair energies are multiples of kT ln 2 for 2 and 3 growth      *)
(* stages, and every Boltzmann factor the walker computes is an exact       *)
(* power of two or underflows to 0.0 as the double does.                    *)
(***************************************************************************)
EXTENDS Integers, Sequences, FiniteSets, TLC

\* ---------------------------------------------------------------- bounds
MaxEquil == 2
MaxProd == 3
\* direct calls of attempt_growth_stage_transition on one walker
MaxCalls == 3
\* CV bins and library conformations per bin the calculator is given
NumBins == 3
MaxCount == 3
\* calls of the shared generator by the walkers of earlier bins, and the
\* period of the streams of numbers it is given
MaxEarlierDraws == 2
StreamLen == 4

\* ------------------------------------------------------- rational numbers
RECURSIVE GCD(_, _)
GCD(a, b) == IF b = 0 THEN a ELSE GCD(b, a % b)

Abs(x) == IF x < 0 THEN -x ELSE x

\* a local variable: v is evaluated once and F applied to its value
Bind(v, F(_)) == CHOOSE r \in {F(x) : x \in {v}} : TRUE

Rat(n, d) ==
    LET s == IF d < 0 THEN -1 ELSE 1
        g == GCD(Abs(n), Abs(d))
    IN  IF n = 0 THEN <<0, 1>> ELSE <<(s * n) \div g, (s * d) \div g>>

Zero == <<0, 1>>
One == <<1, 1>>
Half == <<1, 2>>

RAdd(a, b) ==
    LET g == GCD(a[2], b[2])
    IN  Rat(a[1] * (b[2] \div g) + b[1] * (a[2] \div g), (a[2] \div g) * b[2])

RNeg(a) == <<-a[1], a[2]>>
RSub(a, b) == RAdd(a, RNeg(b))

RMul(a, b) ==
    LET x == Rat(a[1], b[2])
        y == Rat(b[1], a[2])
    IN  <<x[1] * y[1], x[2] * y[2]>>

RInv(a) == Rat(a[2], a[1])
RDiv(a, b) == RMul(a, RInv(b))

RLess(a, b) == RSub(a, b)[1] < 0
RLeq(a, b) == RSub(a, b)[1] <= 0
RMin(a, b) == IF RLess(b, a) THEN b ELSE a
RMax(a, b) == IF RLess(a, b) THEN b ELSE a

RECURSIVE Pow2(_)
Pow2(n) == IF n = 0 THEN 1 ELSE 2 * Pow2(n - 1)

\* floor of a rational
RFloor(a) == IF a[1] >= 0 THEN a[1] \div a[2] ELSE -((-a[1] + a[2] - 1) \div a[2])

\* x < 1e-12 and x > 1e-12 for a rational x.  Every positive rational the
\* 32-bit integers of TLC can hold exceeds 2^-31 > 1e-12, so the comparison with
\* 1e-12 is decided by the sign.
LtEps12(x) == x[1] <= 0
GtEps12(x) == x[1] > 0
\* x > 1e-9 and x < -1e-9
GtEps9(x) == x[1] >= 3 \/ (x[1] > 0 /\ x[1] * 1000000000 > x[2])
LtMinusEps9(x) == GtEps9(RNeg(x))

\* ----------------------------------------------------- program constants
\* box_side_length (in units of sigma); coordinates are the integer points
\* 0 .. box_side_length-1 of the x axis (y = z = 0).
box_side_length == 3
\* KB * target_temperature * ln 2: exp(-beta * x) = 2^(-x / KTLn2)
KTLn2 == 10
\* the fixed free-energy step for a dead direction (+-20.0)
LargeDF == 20
eps_ms == <<1215, 8>>
sigma_ms == One
eps_ss == One
sigma_ss == One

\* ------------------------------------------------------------- energies
\* An energy: pen * 1e10 + val, or an exception raised while computing it.
Energy(p, v) == [err |-> FALSE, pen |-> p, val |-> v]
EZero == Energy(0, Zero)
EPenalty == Energy(1, Zero)
ERaise == [err |-> TRUE, pen |-> 0, val |-> Zero]
EAdd(a, b) == [err |-> a.err \/ b.err, pen |-> a.pen + b.pen, val |-> RAdd(a.val, b.val)]
ESub(a, b) == [err |-> a.err \/ b.err, pen |-> a.pen - b.pen, val |-> RSub(a.val, b.val)]

RECURSIVE ESum(_)
ESum(es) == IF es = <<>> THEN EZero ELSE EAdd(Head(es), ESum(Tail(es)))

\* np.linspace(0, 1, num_growth_stages)[stage_idx]
lambda_values(M, stage_idx) == IF M = 1 THEN Zero ELSE Rat(stage_idx, M - 1)

\* squared distance of two points, no periodic image
calculate_distance_sq(p1, p2) == <<(p1 - p2) * (p1 - p2), 1>>

\* a pair energy that charges the overlap penalty at every coupling
lj_pair_penalty_at_every_lambda(r_sq, lambda_val, epsilon_ms, sigma) ==
    IF LtEps12(r_sq) THEN EPenalty
    ELSE Bind(RDiv(RMul(sigma, sigma), r_sq), LAMBDA sigma_sq_over_r_sq :
         Bind(RMul(sigma_sq_over_r_sq, RMul(sigma_sq_over_r_sq, sigma_sq_over_r_sq)), LAMBDA sr6 :
         Bind(RSub(One, lambda_val), LAMBDA oneMinus :
         Bind(RInv(RAdd(RMul(Half, RMul(oneMinus, oneMinus)), sr6)), LAMBDA inv_base :
             Energy(0, RMul(RMul(<<4, 1>>, RMul(lambda_val, epsilon_ms)),
                            RSub(RMul(inv_base, inv_base), inv_base)))))))

calculate_lj_energy_pair_modified_c4(r_sq, lambda_val, epsilon_ms, sigma) ==
    IF LtEps12(r_sq) THEN (IF GtEps9(lambda_val) THEN EPenalty ELSE EZero)
    ELSE Bind(RDiv(RMul(sigma, sigma), r_sq), LAMBDA sigma_sq_over_r_sq :
         Bind(RMul(sigma_sq_over_r_sq, RMul(sigma_sq_over_r_sq, sigma_sq_over_r_sq)), LAMBDA sr6 :
         Bind(RSub(One, lambda_val), LAMBDA oneMinus :
         Bind(RAdd(RMul(Half, RMul(oneMinus, oneMinus)), sr6), LAMBDA denominator_base :
             IF LtEps12(<<Abs(denominator_base[1]), denominator_base[2]>>)
             THEN (IF GtEps9(lambda_val) THEN EPenalty ELSE EZero)
             ELSE Bind(RInv(denominator_base), LAMBDA inv_base :
                  Energy(0, RMul(RMul(<<4, 1>>, RMul(lambda_val, epsilon_ms)),
                                 RSub(RMul(inv_base, inv_base), inv_base))))))))

\* the soft-core pair energy at every distance and coupling the runs with
\* solvent meet (2 and 3 growth stages), evaluated once
SoftCoreArguments ==
    {<<calculate_distance_sq(0, d), lambda_values(M, s)>> :
        d \in 0..(box_side_length - 1), M \in {2, 3}, s \in 0..2}
SoftCoreValues ==
    [a \in SoftCoreArguments |->
        calculate_lj_energy_pair_modified_c4(a[1], a[2], eps_ms, sigma_ms)]

\* calculate_lj_energy_pair_modified_c4, looked up where it was evaluated
SoftCorePair(r_sq, lambda_val, epsilon_ms, sigma) ==
    IF <<r_sq, lambda_val>> \in SoftCoreArguments /\ epsilon_ms = eps_ms /\ sigma = sigma_ms
    THEN SoftCoreValues[<<r_sq, lambda_val>>]
    ELSE calculate_lj_energy_pair_modified_c4(r_sq, lambda_val, epsilon_ms, sigma)

calculate_polymer_solvent_interaction_c4(polymer_coords, solvent_coords, lambda_val, epsilon_ms, sigma) ==
    IF Len(solvent_coords) = 0 THEN EZero
    ELSE ESum([i \in 1..Len(polymer_coords) |->
              ESum([k \in 1..Len(solvent_coords) |->
                   SoftCorePair(
                       calculate_distance_sq(polymer_coords[i], solvent_coords[k]),
                       lambda_val, epsilon_ms, sigma)])])

\* lines 134-137: the standard 12-6 pair energy of the polymer module
calculate_lj_energy_pair_c3(r_sq, epsilon, sigma) ==
    IF LtEps12(r_sq) THEN EPenalty
    ELSE Bind(RDiv(RMul(sigma, sigma), r_sq), LAMBDA sig_sq_over_r_sq :
         Bind(RMul(sig_sq_over_r_sq, RMul(sig_sq_over_r_sq, sig_sq_over_r_sq)), LAMBDA sr6 :
             Energy(0, RMul(RMul(<<4, 1>>, epsilon), RSub(RMul(sr6, sr6), sr6)))))

\* Line 268 keeps "sigma_sq = ...; inv_r_sq = ..." inside the body of the
\* "if r_sq < 1e-12: return 1e10" statement, after the return: for every other
\* r_sq line 269 reads the unassigned local sigma_sq and raises.
calculate_lj_energy_pair_standard_c4(r_sq, epsilon, sigma) ==
    IF LtEps12(r_sq) THEN EPenalty ELSE ERaise

\* np.rint of the rational n/d: nearest integer, ties to the even one
Rint(n, d) ==
    LET f == RFloor(<<2 * n + d, 2 * d>>)
    IN  IF (2 * n + d) % (2 * d) = 0 /\ f % 2 # 0 THEN f - 1 ELSE f

\* rij - box * rint(rij / box), squared
MinImageSq(xi, xj, box) ==
    LET rij == xj - xi
        r == rij - box * Rint(rij, box)
    IN  <<r * r, 1>>

PairIndices(n) == {ij \in (1..n) \X (1..n) : ij[1] < ij[2]}

RECURSIVE ESumSet(_, _, _, _)
ESumSet(pairs, solvent_coords, epsilon, sigma) ==
    IF pairs = {} THEN EZero
    ELSE LET ij == CHOOSE x \in pairs : TRUE
         IN  EAdd(calculate_lj_energy_pair_standard_c4(
                      MinImageSq(solvent_coords[ij[1]], solvent_coords[ij[2]], box_side_length),
                      epsilon, sigma),
                  ESumSet(pairs \ {ij}, solvent_coords, epsilon, sigma))

calculate_solvent_solvent_energy_c4(solvent_coords, epsilon, sigma) ==
    IF Len(solvent_coords) < 2 THEN EZero
    ELSE ESumSet(PairIndices(Len(solvent_coords)), solvent_coords, epsilon, sigma)

\* get_total_system_energy of a walker with the given coordinates
TotalSystemEnergy(cfg, polymer, solvent, stage_idx) ==
    IF Len(solvent) = 0 /\ cfg.num_solvent_particles = 0 THEN EZero
    ELSE LET lambda_val == lambda_values(cfg.num_growth_stages, stage_idx)
             U_ps == calculate_polymer_solvent_interaction_c4(polymer, solvent, lambda_val, eps_ms, sigma_ms)
             U_ss == calculate_solvent_solvent_energy_c4(solvent, eps_ss, sigma_ss)
         IN  EAdd(U_ps, U_ss)


\* ------------------------------------------------- conformation library
\* binned_library_entries_for_this_bin: the conformations of the walker's CV
\* bin (two monomers each), by their coordinates.
binned_library_entries_for_this_bin == << <<0, 2>>, <<0, 1>> >>

\* ------------------------------------------------------------ the walker
\* columns of the condensed collection matrix
toLower == 0
stay == 1
toHigher == 2

Stages(M) == 0..(M - 1)
OnesVector(M) == [j \in Stages(M) |-> One]
ZerosMatrix(M) == [j \in Stages(M) |-> [c \in 0..2 |-> Zero]]
ZerosVector(M) == [j \in Stages(M) |-> 0]

RowSum(C, j) == RAdd(C[j][toLower], RAdd(C[j][stay], C[j][toHigher]))

\* a Growing walker whose candidate is two stages on where there are two
k_target_two_stages_on(M, j, growth_phase_active) ==
    IF growth_phase_active
    THEN (IF j < M - 2 THEN j + 2 ELSE IF j < M - 1 THEN j + 1 ELSE -1)
    ELSE (IF j > 0 THEN j - 1 ELSE -1)

\* lines 347-351: the neighbour the walk proposes, -1 when there is none
k_target_for_biased_walk(M, j, growth_phase_active) ==
    IF growth_phase_active
    THEN (IF j < M - 1 THEN j + 1 ELSE -1)
    ELSE (IF j > 0 THEN j - 1 ELSE -1)

\* no boundary correction at all
no_log2_correction(M, j, k_ci) == 0

\* lines 356-357, in units of ln 2
log2_correction(M, j, k_ci) ==
    IF (j = 0 /\ k_ci = 1) \/ (j = (M - 1) - 1 /\ k_ci = M - 1) THEN 1
    ELSE IF (j = 1 /\ k_ci = 0) \/ (j = M - 1 /\ k_ci = (M - 1) - 1) THEN -1
    ELSE 0

\* (-beta * dU + c * ln 2) / ln 2 for an energy difference without penalty
LogFactor(dU, c) == RAdd(RNeg(RDiv(dU.val, <<KTLn2, 1>>)), <<c, 1>>)

\* np.exp(q * ln 2) for q < 0: an exact power of two; below 2^-30 the
\* configurations explored are beyond the double's range (q < -1074), 0.0
ExpNegative(q) == IF RFloor(q) < -30 THEN Zero ELSE <<1, Pow2(-RFloor(q))>>

\* the weight exp(-beta*dU + c) without the cap at 1
factor_without_cap(dU, c) ==
    LET q == LogFactor(dU, c)
    IN  IF dU.pen > 0 THEN Zero
        ELSE IF dU.pen < 0 \/ RFloor(q) > 30 THEN <<Pow2(30), 1>>
        ELSE IF q[1] < 0 THEN ExpNegative(q)
        ELSE <<Pow2(RFloor(q)), 1>>

\* lines 355-360: min(1, exp(-beta*dU + c)) with exp taken only below 0
factor_for_Ci_update(dU, c) ==
    LET q == LogFactor(dU, c)
        negative == dU.pen > 0 \/ (dU.pen = 0 /\ q[1] < 0)
        f == IF ~negative THEN One
             ELSE IF dU.pen > 0 THEN Zero ELSE ExpNegative(q)
    IN  RMin(One, f)

\* a collection-matrix update that counts a whole stay next to the weight
UpdateWithWholeStay(C, j, k_ci, factor) ==
    IF k_ci # -1
    THEN LET col == IF k_ci > j THEN toHigher ELSE toLower
         IN  [C EXCEPT ![j] = [@ EXCEPT ![col] = RAdd(@, factor),
                                        ![stay] = RAdd(@, One)]]
    ELSE [C EXCEPT ![j] = [@ EXCEPT ![stay] = RAdd(@, One)]]

\* lines 361-364
UpdateCollectionMatrix(C, j, k_ci, factor) ==
    IF k_ci # -1
    THEN LET col == IF k_ci > j THEN toHigher ELSE toLower
         IN  [C EXCEPT ![j] = [@ EXCEPT ![col] = RAdd(@, factor),
                                        ![stay] = RAdd(@, RSub(One, factor))]]
    ELSE [C EXCEPT ![j] = [@ EXCEPT ![stay] = RAdd(@, One)]]

\* the bias ratio taken the other way round, eta[j] / eta[k]
EtaRatioInverted(eta, j, k, dU) == RDiv(eta[j], eta[k])

\* lines 368-372: log_eta_ratio_walk as the factor exp(log_eta_ratio_walk)
EtaRatioFactor(eta, j, k, dU) ==
    IF GtEps12(<<Abs(eta[j][1]), eta[j][2]>>)
    THEN LET eta_ratio_val_walk == RDiv(eta[k], eta[j])
         IN  IF GtEps12(eta_ratio_val_walk) THEN eta_ratio_val_walk ELSE Zero
    ELSE IF dU.pen > 0 \/ (dU.pen = 0 /\ dU.val[1] > 0) THEN Zero
    ELSE One

\* lines 366-374: exp(log_eta_ratio + log_boltzmann + c) below 0, else 1
p_acc_biased_for_walk(eta, j, k, dU, c) ==
    LET r == EtaRatioFactor(eta, j, k, dU)
        q == RFloor(LogFactor(dU, c))
    IN  IF r = Zero THEN Zero
        ELSE IF dU.pen > 0 THEN Zero
        ELSE IF dU.pen < 0 THEN One
        ELSE IF q > 30 THEN One
        ELSE IF q < -30 THEN Zero
        ELSE LET v == IF q >= 0 THEN RMul(r, <<Pow2(q), 1>>) ELSE RMul(r, <<1, Pow2(-q)>>)
             IN  IF RLess(v, One) THEN v ELSE One

\* an attempt that adds the biased acceptance probability to the matrix
AttemptWeighingByAcceptance(cfg, polymer, solvent, etaV, C, j, growth_phase_active) ==
    LET M == cfg.num_growth_stages
        k == k_target_for_biased_walk(M, j, growth_phase_active)
        c == IF k # -1 THEN log2_correction(M, j, k) ELSE 0
    IN  Bind(TotalSystemEnergy(cfg, polymer, solvent, j), LAMBDA U_j :
        Bind(IF k # -1 THEN TotalSystemEnergy(cfg, polymer, solvent, k) ELSE U_j, LAMBDA U_k :
        Bind(ESub(U_k, U_j), LAMBDA dU :
        Bind(IF k # -1 THEN p_acc_biased_for_walk(etaV, j, k, dU, c) ELSE Zero, LAMBDA p :
            [energy_raised |-> U_j.err,
             to_k |-> k,
             delta_U |-> dU,
             log2_corr_applied |-> c,
             factor_for_Ci |-> p,
             C_new |-> UpdateCollectionMatrix(C, j, k, p),
             p_unbound |-> k = -1,
             p_acc |-> p]))))

\* attempt_growth_stage_transition up to the acceptance draw (lines 346-374)
AttemptComputation(cfg, polymer, solvent, etaV, C, j, growth_phase_active) ==
    LET M == cfg.num_growth_stages
        k == k_target_for_biased_walk(M, j, growth_phase_active)
        c == IF k # -1 THEN log2_correction(M, j, k) ELSE 0
    IN  Bind(TotalSystemEnergy(cfg, polymer, solvent, j), LAMBDA U_j :
        Bind(IF k # -1 THEN TotalSystemEnergy(cfg, polymer, solvent, k) ELSE U_j, LAMBDA U_k :
        Bind(ESub(U_k, U_j), LAMBDA dU :
        Bind(IF k # -1 THEN factor_for_Ci_update(dU, c) ELSE Zero, LAMBDA factor :
            [energy_raised |-> U_j.err,
             to_k |-> k,
             delta_U |-> dU,
             log2_corr_applied |-> c,
             factor_for_Ci |-> factor,
             C_new |-> UpdateCollectionMatrix(C, j, k, factor),
             \* line 375 reads p_acc_biased_for_walk, which only the branch of
             \* lines 366-374 assigns (line 365 initialises p_acc_biased_walk)
             p_unbound |-> k = -1,
             p_acc |-> IF k # -1 THEN p_acc_biased_for_walk(etaV, j, k, dU, c) ELSE Zero]))))


\* ------------------------------------------------- eta re-estimation
\* C[j, col] / (N + 1e-12): the regulariser only keeps 0/0 from raising
Flux(count, N) == IF N = Zero THEN Zero ELSE RDiv(count, N)

P_j_to_jplus1(C, j) == Flux(C[j][toHigher], RowSum(C, j))
P_jplus1_to_j(C, j) == Flux(C[j + 1][toLower], RowSum(C, j + 1))

\* lines 388-394: delta_F_step as the branch taken; "log" stands for
\* -(1/beta) * ln(ratio), "zero" for 0.0, "plus20" / "minus20" for +-20.0
delta_F_step(C, j) ==
    Bind(P_j_to_jplus1(C, j), LAMBDA fwd :
    Bind(P_jplus1_to_j(C, j), LAMBDA bwd :
        IF LtEps12(bwd)
        THEN (IF LtEps12(fwd) THEN [kind |-> "zero", ratio |-> One]
                              ELSE [kind |-> "minus20", ratio |-> One])
        ELSE IF LtEps12(fwd) THEN [kind |-> "plus20", ratio |-> One]
        ELSE Bind(RDiv(fwd, bwd), LAMBDA ratio :
                 IF GtEps9(ratio) THEN [kind |-> "log", ratio |-> ratio]
                 ELSE IF LtMinusEps9(ratio) THEN [kind |-> "plus20", ratio |-> One]
                 ELSE [kind |-> "zero", ratio |-> One])))

\* exp(-beta * delta_F_step)
BoltzmannOfStep(step) ==
    CASE step.kind = "zero" -> One
      [] step.kind = "minus20" -> <<Pow2(LargeDF \div KTLn2), 1>>
      [] step.kind = "plus20" -> <<1, Pow2(LargeDF \div KTLn2)>>
      [] step.kind = "log" -> step.ratio

\* lines 382-395: exp(-beta * temp_F[j]), temp_F[0] = 0
RECURSIVE BoltzmannOfTempF(_, _)
BoltzmannOfTempF(C, j) ==
    IF j = 0 THEN One
    ELSE RMul(BoltzmannOfTempF(C, j - 1), BoltzmannOfStep(delta_F_step(C, j - 1)))

RECURSIVE VecMax(_, _)
VecMax(v, n) == IF n = 0 THEN v[0] ELSE RMax(v[n], VecMax(v, n - 1))
RECURSIVE VecMin(_, _)
VecMin(v, n) == IF n = 0 THEN v[0] ELSE RMin(v[n], VecMin(v, n - 1))
SetMin(S) == CHOOSE x \in S : \A y \in S : RLeq(x, y)
RECURSIVE VecSum(_, _)
VecSum(v, n) == IF n = 0 THEN v[0] ELSE RAdd(v[n], VecSum(v, n - 1))

\* the new weights scaled by their largest entry
normalized_by_largest(new_eta, min_valid_new_eta, M) ==
    [j \in Stages(M) |-> RDiv(new_eta[j], VecMax(new_eta, M - 1))]

\* the stage probabilities themselves in place of their scaled inverses
unnormalized_probabilities(new_eta, min_valid_new_eta, M) ==
    [j \in Stages(M) |-> RInv(new_eta[j])]

\* line 409: new_eta / min_valid_new_eta
normalized_new_eta(new_eta, min_valid_new_eta, M) ==
    [j \in Stages(M) |-> RDiv(new_eta[j], min_valid_new_eta)]

\* line 411
DampedEta(etaV, normalized, damping_factor, M) ==
    [j \in Stages(M) |-> RAdd(RMul(RSub(One, damping_factor), etaV[j]),
                              RMul(damping_factor, normalized[j]))]

\* lines 380-413; temp_F is finite in every case, so lines 398 and 413 are
\* not reached
update_eta_biasing_factors(C, etaV, cfg) ==
    LET M == cfg.num_growth_stages
    IN  Bind([j \in Stages(M) |-> BoltzmannOfTempF(C, j)], LAMBDA G :
        \* exp(-beta * (temp_F - min_F_val))
        Bind(VecMax(G, M - 1), LAMBDA maxG :
        Bind([j \in Stages(M) |-> RDiv(G[j], maxG)], LAMBDA shifted :
        Bind(VecSum(shifted, M - 1), LAMBDA sum_p :
        Bind([j \in Stages(M) |-> RDiv(shifted[j], sum_p)], LAMBDA probabilities_p_j :
        \* 1 / (p + 1e-12)
        Bind([j \in Stages(M) |-> RInv(probabilities_p_j[j])], LAMBDA new_eta :
        Bind({j \in Stages(M) : GtEps12(probabilities_p_j[j])}, LAMBDA valid :
        Bind(IF valid = {} THEN One ELSE SetMin({new_eta[j] : j \in valid}), LAMBDA min_over_valid :
        Bind(IF GtEps9(min_over_valid) THEN min_over_valid ELSE One, LAMBDA min_valid_new_eta :
            IF GtEps9(sum_p)
            THEN DampedEta(etaV, normalized_new_eta(new_eta, min_valid_new_eta, M),
                           cfg.eta_damping_factor, M)
            ELSE OnesVector(M))))))))))

\* ---------------------------------------------------------------- state
VARIABLES
    sim_config,                        \* the configuration record (read-only)
    polymer_coords,
    current_polymer_lib_entry,         \* index into the library, 0 for None
    initial_solvent_config_template,
    solvent_coords,
    solvent_is_template,               \* solvent_coords is the template array itself, not a copy
    current_growth_stage_idx,
    eta,
    collection_matrix_C_i_condensed,
    visits_per_stage,
    total_solvent_moves_attempted,
    total_solvent_moves_accepted,
    total_gee_moves_attempted,
    total_gee_moves_accepted,
    gee_attempt_details_log,
    \* locals of run_simulation_for_cv_bin and run_solvent_mc_sweep
    pc,
    run_stage,                         \* "equil" or "prod": which of the two loops
    outer_cycle,
    sweep_idx,
    move_idx,
    accepted_this_sweep,
    p_idx_this_sweep,                  \* the particles the sweep under way (or the last one) proposed to move
    growth_phase,
    num_polymer_selections,
    last_load                          \* outcome of the latest _select_and_load_new_polymer

\* arguments and results of the FreeEnergyCalculator_Cell4 methods; a
\* dictionary is a function on its set of keys
VARIABLES
    all_C_i_condensed_dict,            \* bin -> collection matrix of its walker
    ni_counts_per_bin_dict,            \* bin -> number of library conformations
    n1_count_ref_bin,
    F_ij_minus_F_i1_all_bins_dict,     \* bin -> intra-bin profile
    delta_F_i1_initial_dict,           \* bin -> inter-bin offset
    final_delta_F_profiles             \* bin -> combined profile

objectVars == <<polymer_coords, current_polymer_lib_entry, initial_solvent_config_template,
    solvent_coords, solvent_is_template, current_growth_stage_idx, eta,
    collection_matrix_C_i_condensed, visits_per_stage, total_solvent_moves_attempted,
    total_solvent_moves_accepted, total_gee_moves_attempted, total_gee_moves_accepted,
    gee_attempt_details_log>>
runVars == <<pc, run_stage, outer_cycle, sweep_idx, move_idx, accepted_this_sweep, p_idx_this_sweep,
    growth_phase, num_polymer_selections, last_load>>
\* the generator of the module `random` (lines 309, 339, 375, 585), one for
\* the whole process: `known` with the stream of numbers it returns from its
\* seed and how many of them have been taken, or not known, when any number
\* can come next
VARIABLE random_state

calculatorVars == <<all_C_i_condensed_dict, ni_counts_per_bin_dict, n1_count_ref_bin,
    F_ij_minus_F_i1_all_bins_dict, delta_F_i1_initial_dict, final_delta_F_profiles>>
vars == <<sim_config, objectVars, runVars, calculatorVars, random_state>>

Cells == 0..(box_side_length - 1)
SolventConfigs(n) == [1..n -> Cells]

\* the configurations explored
Configs ==
    {[num_growth_stages |-> m, num_solvent_particles |-> n,
      mc_equilibration_cycles |-> e, mc_production_cycles |-> p,
      solvent_sweeps_per_gee_attempt |-> s, eta_update_frequency |-> f,
      eta_damping_factor |-> d] :
        m \in {2, 3, 4}, n \in {0, 1, 2}, e \in {MaxEquil}, p \in {MaxProd},
        s \in {0, 1, 2}, f \in {1, 2}, d \in {<<1, 5>>, Half}}

\* 4 growth stages put the soft-core energies off the kT ln 2 grid, so they
\* run without solvent; solvent_sweeps_per_gee_attempt = 0 and 2 are
\* explored without solvent, and two solvent particles with one choice of
\* the eta parameters (their runs end in the first energy evaluation)
ConfigOk(cfg) ==
    /\ cfg.num_growth_stages = 4 => cfg.num_solvent_particles = 0
    /\ cfg.solvent_sweeps_per_gee_attempt # 1 => cfg.num_solvent_particles = 0
    /\ cfg.num_solvent_particles = 2 =>
           cfg.eta_update_frequency = 1 /\ cfg.eta_damping_factor = Half

\* a block of at least two sweeps
sweeps_per_block_at_least_two == IF sim_config.solvent_sweeps_per_gee_attempt > 2
    THEN sim_config.solvent_sweeps_per_gee_attempt ELSE 2

sweeps_per_block == IF sim_config.solvent_sweeps_per_gee_attempt > 1
    THEN sim_config.solvent_sweeps_per_gee_attempt ELSE 1

\* lines 447, 467
eta_upd_outer_freq ==
    LET q == sim_config.eta_update_frequency \div sweeps_per_block
    IN  IF q > 1 THEN q ELSE 1

\* where the loops of lines 431 and 451 stand after `done` cycles of `stg`
LoopPosition(stg, done) ==
    IF stg = "equil" /\ done < sim_config.mc_equilibration_cycles THEN <<"equil", done, "sweep">>
    ELSE IF stg = "equil" /\ sim_config.mc_production_cycles > 0 THEN <<"prod", 0, "sweep">>
    ELSE IF stg = "prod" /\ done < sim_config.mc_production_cycles THEN <<"prod", done, "sweep">>
    ELSE <<"prod", done, "done">>

\* __init__ (lines 282-305), and line 606 which sets the library entry: the
\* walker as run_simulation_main_logic builds it (lines 585-606), or built
\* with an empty solvent array
ObjectInit ==
    /\ sim_config \in {cfg \in Configs : ConfigOk(cfg)}
    /\ current_polymer_lib_entry \in 1..Len(binned_library_entries_for_this_bin)
    /\ polymer_coords = binned_library_entries_for_this_bin[current_polymer_lib_entry]
    /\ initial_solvent_config_template \in
          SolventConfigs(sim_config.num_solvent_particles) \cup {<<>>}
    /\ solvent_coords = initial_solvent_config_template
    /\ solvent_is_template = FALSE
    /\ current_growth_stage_idx = 0
    /\ eta = OnesVector(sim_config.num_growth_stages)
    /\ collection_matrix_C_i_condensed = ZerosMatrix(sim_config.num_growth_stages)
    /\ visits_per_stage = ZerosVector(sim_config.num_growth_stages)
    /\ total_solvent_moves_attempted = 0
    /\ total_solvent_moves_accepted = 0
    /\ total_gee_moves_attempted = 0
    /\ total_gee_moves_accepted = 0
    /\ gee_attempt_details_log = <<>>

\* the generator in a state the model does not follow
AnyGenerator == [known |-> FALSE, stream |-> <<>>, pos |-> 0]

\* no walker has returned yet: the analysis has nothing
NoAnalysis ==
    /\ all_C_i_condensed_dict = <<>>
    /\ ni_counts_per_bin_dict = <<>>
    /\ n1_count_ref_bin = 0
    /\ F_ij_minus_F_i1_all_bins_dict = <<>>
    /\ delta_F_i1_initial_dict = <<>>
    /\ final_delta_F_profiles = <<>>

\* run_simulation_for_cv_bin up to its first loop (lines 420-430)
Init ==
    /\ ObjectInit
    /\ NoAnalysis
    /\ random_state = AnyGenerator
    /\ growth_phase = TRUE
    /\ num_polymer_selections = 1
    /\ last_load = "none"
    /\ sweep_idx = 0
    /\ move_idx = 0
    /\ accepted_this_sweep = 0
    /\ p_idx_this_sweep = <<>>
    /\ run_stage = LoopPosition("equil", 0)[1]
    /\ outer_cycle = LoopPosition("equil", 0)[2]
    /\ pc = LoopPosition("equil", 0)[3]

\* --------------------------------------------------------- random draws
\* random.random() < p for a draw in [0, 1): the outcomes that can happen
DrawOutcomes(p) == {a \in BOOLEAN : (a => RLess(Zero, p)) /\ (~a => RLess(p, One))}

\* the generator after one more call
AfterCall(g) == IF g.known THEN [g EXCEPT !.pos = @ + 1] ELSE g

\* the number in [0, 1) the next call returns
NextUniform(g) == g.stream[(g.pos % Len(g.stream)) + 1]

\* random.random() < p
random_below(g, p) == IF g.known THEN {RLess(NextUniform(g), p)} ELSE DrawOutcomes(p)

\* random.choice among n entries
random_choice(g, n) ==
    IF g.known THEN {RFloor(RMul(NextUniform(g), <<n, 1>>)) + 1} ELSE 1..n

\* np.exp(-beta * delta_U) of line 339, capped at 1 (the draw is below 1)
MetropolisFactor(dU) ==
    LET q == LogFactor(dU, 0)
    IN  IF dU.pen < 0 THEN One
        ELSE IF dU.pen > 0 THEN Zero
        ELSE IF q[1] >= 0 THEN One
        ELSE ExpNegative(q)

\* the displacements translate_solvent_molecule_pbc can make along x, in
\* cells (solvent_max_displacement = 1)
Displacements == {-1, 0, 1}

\* translate_solvent_molecule_pbc: move particle p_idx, wrapped into the box
translate_solvent_molecule_pbc(coords, p_idx, disp) ==
    [coords EXCEPT ![p_idx] = (@ + disp + box_side_length) % box_side_length]

\* ------------------------------------------------ run_solvent_mc_sweep
\* the sweep is over; back in lines 432-438 / 452-458
AfterSweep ==
    /\ move_idx' = 0
    /\ accepted_this_sweep' = 0
    /\ IF sweep_idx + 1 >= sweeps_per_block
       THEN sweep_idx' = 0 /\ pc' = "attempt"
       ELSE sweep_idx' = sweep_idx + 1 /\ pc' = "sweep"

\* line 331: no solvent, the sweep returns at once
SweepNoSolvent ==
    /\ pc = "sweep"
    /\ Len(solvent_coords) = 0
    /\ AfterSweep
    /\ UNCHANGED <<sim_config, objectVars, run_stage, outer_cycle, growth_phase,
                   num_polymer_selections, last_load, p_idx_this_sweep>>
    /\ UNCHANGED calculatorVars
    /\ UNCHANGED random_state

\* a move whose rejection leaves the particle where the proposal put it
coords_without_restore(accept, moved, p_idx, orig_coord) == moved

\* lines 339-340: the array after the draw; a rejected proposal puts
\* orig_coord back
coords_after_move(accept, moved, p_idx, orig_coord) ==
    IF accept THEN moved ELSE [moved EXCEPT ![p_idx] = orig_coord]

\* a counter of attempted moves that counts the sweeps
moves_attempted_counting_sweeps(total, idx, num_particles_to_move) ==
    IF idx = 0 THEN total + 1 ELSE total

\* line 334: total_solvent_moves_attempted once the iteration idx of the
\* loop has run; the whole sweep is counted before its first iteration
moves_attempted_after(total, idx, num_particles_to_move) ==
    IF idx = 0 THEN total + num_particles_to_move ELSE total

\* one iteration of the loop of lines 335-340, with lines 332-334 before the
\* first one and line 341 after the last one
SolventMove ==
    /\ pc = "sweep"
    /\ Len(solvent_coords) > 0
    /\ \E current_U_system_val \in {TotalSystemEnergy(sim_config, polymer_coords,
                                       solvent_coords, current_growth_stage_idx)} :
       LET num_particles_to_move == Len(solvent_coords)
           attempted == moves_attempted_after(total_solvent_moves_attempted, move_idx,
                                              num_particles_to_move)
       IN  IF current_U_system_val.err
           THEN /\ pc' = "error"
                /\ UNCHANGED <<sim_config, objectVars, run_stage, outer_cycle, sweep_idx,
                               move_idx, accepted_this_sweep, p_idx_this_sweep, growth_phase,
                               num_polymer_selections, last_load, random_state>>
           ELSE \E p_idx \in 1..num_particles_to_move, disp \in Displacements :
                \E moved \in {translate_solvent_molecule_pbc(solvent_coords, p_idx, disp)} :
                \E new_U \in {TotalSystemEnergy(sim_config, polymer_coords, moved,
                                                current_growth_stage_idx)} :
                    /\ total_solvent_moves_attempted' = attempted
                    /\ p_idx_this_sweep' = IF move_idx = 0 THEN <<p_idx>>
                                         ELSE Append(p_idx_this_sweep, p_idx)
                    /\ IF new_U.err
                       THEN /\ pc' = "error"
                            /\ solvent_coords' = moved
                            /\ UNCHANGED <<total_solvent_moves_accepted, sweep_idx, move_idx,
                                           accepted_this_sweep, random_state>>
                       ELSE \E accept \in random_below(random_state,
                                               MetropolisFactor(ESub(new_U, current_U_system_val))) :
                            LET acc == accepted_this_sweep + (IF accept THEN 1 ELSE 0)
                            IN  /\ solvent_coords' = coords_after_move(accept, moved, p_idx,
                                                                       solvent_coords[p_idx])
                                /\ random_state' = AfterCall(random_state)
                                /\ IF move_idx + 1 >= num_particles_to_move
                                   THEN /\ total_solvent_moves_accepted' = total_solvent_moves_accepted + acc
                                        /\ AfterSweep
                                   ELSE /\ move_idx' = move_idx + 1
                                        /\ accepted_this_sweep' = acc
                                        /\ UNCHANGED <<total_solvent_moves_accepted, sweep_idx, pc>>
                    /\ initial_solvent_config_template' =
                          IF solvent_is_template THEN solvent_coords' ELSE initial_solvent_config_template
    /\ UNCHANGED <<sim_config, polymer_coords, current_polymer_lib_entry, solvent_is_template,
                   current_growth_stage_idx, eta, collection_matrix_C_i_condensed,
                   visits_per_stage, total_gee_moves_attempted, total_gee_moves_accepted,
                   gee_attempt_details_log, run_stage, outer_cycle, growth_phase,
                   num_polymer_selections, last_load>>
    /\ UNCHANGED calculatorVars

\* ------------------------------------ attempt_growth_stage_transition
\* line 376: the entry appended to gee_attempt_details_log
LogEntry(j, r, accepted) ==
    [from_j |-> j, to_k |-> r.to_k, delta_U |-> r.delta_U, eta_j |-> eta[j],
     eta_k |-> eta[IF r.to_k # -1 THEN r.to_k ELSE j],
     log2_corr_applied |-> r.log2_corr_applied, p_acc_biased_walk |-> r.p_acc,
     accepted |-> accepted, factor_for_Ci |-> r.factor_for_Ci]

\* the whole call; `after` is where the caller goes on when it returns
attempt_growth_stage_transition(growth_phase_active, after) ==
    \E j \in {current_growth_stage_idx} :
    \E r \in {AttemptComputation(sim_config, polymer_coords, solvent_coords, eta,
                                collection_matrix_C_i_condensed, j, growth_phase_active)} :
        /\ total_gee_moves_attempted' = total_gee_moves_attempted + 1
        /\ IF r.energy_raised
           THEN /\ pc' = "error"
                /\ UNCHANGED <<collection_matrix_C_i_condensed, gee_attempt_details_log,
                               current_growth_stage_idx, total_gee_moves_accepted,
                               random_state>>
           ELSE /\ collection_matrix_C_i_condensed' = r.C_new
                /\ random_state' = AfterCall(random_state)
                /\ IF r.p_unbound
                   THEN /\ pc' = "error"
                        /\ UNCHANGED <<gee_attempt_details_log, current_growth_stage_idx,
                                       total_gee_moves_accepted>>
                   ELSE \E accepted \in random_below(random_state, r.p_acc) :
                        /\ gee_attempt_details_log' =
                              Append(gee_attempt_details_log, LogEntry(j, r, accepted))
                        /\ current_growth_stage_idx' = IF accepted THEN r.to_k ELSE j
                        /\ total_gee_moves_accepted' =
                              total_gee_moves_accepted + (IF accepted THEN 1 ELSE 0)
                        /\ pc' = after
        /\ UNCHANGED <<sim_config, polymer_coords, current_polymer_lib_entry,
                       initial_solvent_config_template, solvent_coords, solvent_is_template,
                       eta, visits_per_stage, total_solvent_moves_attempted,
                       total_solvent_moves_accepted>>

\* lines 438, 458
AttemptStep ==
    /\ pc = "attempt"
    /\ attempt_growth_stage_transition(growth_phase, "visit")
    /\ UNCHANGED <<run_stage, outer_cycle, sweep_idx, move_idx, accepted_this_sweep, p_idx_this_sweep,
                   growth_phase, num_polymer_selections, last_load>>
    /\ UNCHANGED calculatorVars

\* lines 439, 459
VisitStep ==
    /\ pc = "visit"
    /\ visits_per_stage' = [visits_per_stage EXCEPT ![current_growth_stage_idx] = @ + 1]
    /\ pc' = "phase"
    /\ UNCHANGED <<sim_config, polymer_coords, current_polymer_lib_entry,
                   initial_solvent_config_template, solvent_coords, solvent_is_template,
                   current_growth_stage_idx, eta, collection_matrix_C_i_condensed,
                   total_solvent_moves_attempted, total_solvent_moves_accepted,
                   total_gee_moves_attempted, total_gee_moves_accepted,
                   gee_attempt_details_log, run_stage, outer_cycle, sweep_idx, move_idx,
                   accepted_this_sweep, p_idx_this_sweep, growth_phase, num_polymer_selections, last_load>>
    /\ UNCHANGED calculatorVars
    /\ UNCHANGED random_state

\* a walker that never turns around
growth_phase_kept(phase, stage, M) == phase

\* a walker that turns to Shrinking as soon as it has left stage 0
growth_phase_turning_early(phase, stage, M) ==
    IF ~phase /\ stage = 0 THEN TRUE
    ELSE IF phase /\ stage > 0 THEN FALSE
    ELSE phase

\* a walker that stays Shrinking once it has been at the last stage
growth_phase_never_regrowing(phase, stage, M) ==
    IF phase /\ stage = M - 1 THEN FALSE ELSE phase

\* lines 440, 444-446: growth_phase after a cycle whose attempt left the
\* walker at `stage`
growth_phase_after(phase, stage, M) ==
    IF ~phase /\ stage = 0 THEN TRUE
    ELSE IF phase /\ stage = M - 1 THEN FALSE
    ELSE phase

\* --------------------------------------- _select_and_load_new_polymer
\* the reset without np.copy: the walker's solvent array is the template
ResetSolventSharingTemplate(template, num_solvent_particles, fresh) ==
    IF Len(template) > 0 THEN [coords |-> template, is_template |-> TRUE]
    ELSE IF num_solvent_particles > 0 THEN [coords |-> fresh, is_template |-> FALSE]
    ELSE [coords |-> <<>>, is_template |-> FALSE]

\* lines 315-317: the solvent array after a successful load, and whether it
\* is the template array itself (np.copy makes it a new one)
ResetSolvent(template, num_solvent_particles, fresh) ==
    IF Len(template) > 0 THEN [coords |-> template, is_template |-> FALSE]
    ELSE IF num_solvent_particles > 0 THEN [coords |-> fresh, is_template |-> FALSE]
    ELSE [coords |-> <<>>, is_template |-> FALSE]

\* load_specific_conformation_new_format: the coordinates, or None
LoadOutcomes == {"ok", "failed"}

\* a load whose failure still resets the solvent from the template
select_and_load_resetting_on_failure ==
    \E selected_entry \in random_choice(random_state,
                                         Len(binned_library_entries_for_this_bin)),
       loaded \in LoadOutcomes,
       fresh \in SolventConfigs(sim_config.num_solvent_particles) :
        LET reset == ResetSolvent(initial_solvent_config_template,
                                  sim_config.num_solvent_particles, fresh)
        IN  /\ last_load' = loaded
            /\ random_state' = AfterCall(random_state)
            /\ solvent_coords' = reset.coords
            /\ solvent_is_template' = reset.is_template
            /\ IF loaded = "ok"
               THEN /\ polymer_coords' = binned_library_entries_for_this_bin[selected_entry]
                    /\ current_polymer_lib_entry' = selected_entry
               ELSE UNCHANGED <<polymer_coords, current_polymer_lib_entry>>

\* the whole call; last_load' is what it returns
select_and_load_new_polymer ==
    IF Len(binned_library_entries_for_this_bin) = 0
    THEN /\ last_load' = "failed"
         /\ UNCHANGED <<polymer_coords, current_polymer_lib_entry, solvent_coords,
                        solvent_is_template, random_state>>
    ELSE \E selected_entry \in random_choice(random_state,
                                              Len(binned_library_entries_for_this_bin)),
            loaded \in LoadOutcomes,
            fresh \in SolventConfigs(sim_config.num_solvent_particles) :
         /\ last_load' = loaded
         /\ random_state' = AfterCall(random_state)
         /\ IF loaded = "ok"
            THEN LET reset == ResetSolvent(initial_solvent_config_template,
                                           sim_config.num_solvent_particles, fresh)
                 IN  /\ polymer_coords' = binned_library_entries_for_this_bin[selected_entry]
                     /\ current_polymer_lib_entry' = selected_entry
                     /\ solvent_coords' = reset.coords
                     /\ solvent_is_template' = reset.is_template
            ELSE UNCHANGED <<polymer_coords, current_polymer_lib_entry, solvent_coords,
                             solvent_is_template>>

\* lines 440-446, 460-466
PhaseStep ==
    /\ pc = "phase"
    /\ growth_phase' = growth_phase_after(growth_phase, current_growth_stage_idx,
                                          sim_config.num_growth_stages)
    /\ IF ~growth_phase /\ current_growth_stage_idx = 0
       THEN /\ select_and_load_new_polymer
            /\ num_polymer_selections' =
                  num_polymer_selections + (IF last_load' = "ok" THEN 1 ELSE 0)
       ELSE /\ last_load' = "none"
            /\ UNCHANGED <<polymer_coords, current_polymer_lib_entry, solvent_coords,
                           solvent_is_template, num_polymer_selections, random_state>>
    /\ pc' = "eta"
    /\ UNCHANGED <<sim_config, initial_solvent_config_template, current_growth_stage_idx,
                   eta, collection_matrix_C_i_condensed, visits_per_stage,
                   total_solvent_moves_attempted, total_solvent_moves_accepted,
                   total_gee_moves_attempted, total_gee_moves_accepted,
                   gee_attempt_details_log, run_stage, outer_cycle, sweep_idx, move_idx,
                   accepted_this_sweep, p_idx_this_sweep>>
    /\ UNCHANGED calculatorVars

\* lines 447-448, 467-468, and the step of the for loops of lines 431, 451
EtaStep ==
    /\ pc = "eta"
    /\ eta' = IF outer_cycle > 0 /\ outer_cycle % eta_upd_outer_freq = 0
              THEN update_eta_biasing_factors(collection_matrix_C_i_condensed, eta, sim_config)
              ELSE eta
    /\ run_stage' = LoopPosition(run_stage, outer_cycle + 1)[1]
    /\ outer_cycle' = LoopPosition(run_stage, outer_cycle + 1)[2]
    /\ pc' = LoopPosition(run_stage, outer_cycle + 1)[3]
    /\ UNCHANGED <<sim_config, polymer_coords, current_polymer_lib_entry,
                   initial_solvent_config_template, solvent_coords, solvent_is_template,
                   current_growth_stage_idx, collection_matrix_C_i_condensed,
                   visits_per_stage, total_solvent_moves_attempted,
                   total_solvent_moves_accepted, total_gee_moves_attempted,
                   total_gee_moves_accepted, gee_attempt_details_log, sweep_idx, move_idx,
                   accepted_this_sweep, p_idx_this_sweep, growth_phase, num_polymer_selections, last_load>>
    /\ UNCHANGED calculatorVars
    /\ UNCHANGED random_state

\* run_simulation_for_cv_bin, lines 416-477
Next ==
    \/ SweepNoSolvent
    \/ SolventMove
    \/ AttemptStep
    \/ VisitStep
    \/ PhaseStep
    \/ EtaStep

Spec == Init /\ [][Next]_vars

\* ------------------------------------------- the method called directly
\* attempt_growth_stage_transition is a public method: a caller outside
\* run_simulation_for_cv_bin passes whatever growth_phase_active it likes.
\* growth_phase holds the argument of the next call.
InitCalls ==
    /\ ObjectInit
    /\ NoAnalysis
    /\ random_state = AnyGenerator
    /\ growth_phase = TRUE
    /\ num_polymer_selections = 1
    /\ last_load = "none"
    /\ sweep_idx = 0
    /\ move_idx = 0
    /\ accepted_this_sweep = 0
    /\ p_idx_this_sweep = <<>>
    /\ run_stage = "equil"
    /\ outer_cycle = 0
    /\ pc = "api"

\* the caller picks the other value of growth_phase_active
ChooseArgument ==
    /\ pc = "api"
    /\ growth_phase' = ~growth_phase
    /\ UNCHANGED <<sim_config, objectVars, pc, run_stage, outer_cycle, sweep_idx, move_idx,
                   accepted_this_sweep, p_idx_this_sweep, num_polymer_selections, last_load>>
    /\ UNCHANGED calculatorVars
    /\ UNCHANGED random_state

\* one call, lines 344-378
CallAttempt ==
    /\ pc = "api"
    /\ total_gee_moves_attempted < MaxCalls
    /\ attempt_growth_stage_transition(growth_phase, "api")
    /\ UNCHANGED <<run_stage, outer_cycle, sweep_idx, move_idx, accepted_this_sweep, p_idx_this_sweep,
                   growth_phase, num_polymer_selections, last_load>>
    /\ UNCHANGED calculatorVars

NextCalls ==
    \/ ChooseArgument
    \/ CallAttempt

SpecCalls == InitCalls /\ [][NextCalls]_vars

\* ------------------------------------------ FreeEnergyCalculator_Cell4
\* A free energy F is held as its Boltzmann factor exp(-beta * F), so a sum
\* of free energies is a product of factors and -(1/beta) * ln(x) is held as
\* x; float('inf') is held apart.
Finite(b) == [inf |-> FALSE, boltz |-> b]
Infinite == [inf |-> TRUE, boltz |-> Zero]

\* a profile step with the sign of the logarithm lost
F_diffs_step_inverted(C, j) ==
    Bind(Flux(C[j][toHigher], RowSum(C, j)), LAMBDA fwd :
    Bind(Flux(C[j + 1][toLower], RowSum(C, j + 1)), LAMBDA bwd :
        IF LtEps12(bwd)
        THEN (IF LtEps12(fwd) THEN [kind |-> "zero", ratio |-> One]
                              ELSE [kind |-> "minus20", ratio |-> One])
        ELSE IF LtEps12(fwd) THEN [kind |-> "plus20", ratio |-> One]
        ELSE Bind(RDiv(bwd, fwd), LAMBDA ratio :
                 IF GtEps9(ratio) THEN [kind |-> "log", ratio |-> ratio]
                 ELSE IF LtMinusEps9(ratio) THEN [kind |-> "plus20", ratio |-> One]
                 ELSE [kind |-> "zero", ratio |-> One])))

\* lines 488-497: delta_F_step of the profile, as the branch taken
F_diffs_step(C, j) ==
    Bind(Flux(C[j][toHigher], RowSum(C, j)), LAMBDA P_fwd :
    Bind(Flux(C[j + 1][toLower], RowSum(C, j + 1)), LAMBDA P_bwd :
        IF LtEps12(P_bwd)
        THEN (IF LtEps12(P_fwd) THEN [kind |-> "zero", ratio |-> One]
                                ELSE [kind |-> "minus20", ratio |-> One])
        ELSE IF LtEps12(P_fwd) THEN [kind |-> "plus20", ratio |-> One]
        ELSE Bind(RDiv(P_fwd, P_bwd), LAMBDA ratio :
                 IF GtEps9(ratio) THEN [kind |-> "log", ratio |-> ratio]
                 ELSE IF LtMinusEps9(ratio) THEN [kind |-> "plus20", ratio |-> One]
                 ELSE [kind |-> "zero", ratio |-> One])))

\* line 498: exp(-beta * F_diffs[j]), F_diffs[0] = 0
RECURSIVE F_diffs(_, _)
F_diffs(C, j) ==
    IF j = 0 THEN One
    ELSE RMul(F_diffs(C, j - 1), BoltzmannOfStep(F_diffs_step(C, j - 1)))

\* lines 485-499
calculate_F_i_j_minus_F_i_1(C_i_condensed_np_arr, num_stages) ==
    [j \in Stages(num_stages) |-> F_diffs(C_i_condensed_np_arr, j)]

\* an offset computed from n_ref / n_i
offset_of_inverse_ratio(ni_count, n1_ref) ==
    IF ni_count = 0 \/ n1_ref = 0 THEN Infinite ELSE Finite(Rat(n1_ref, ni_count))

\* lines 505-506: the offset of one bin
offset_of_bin(ni_count, n1_ref) ==
    IF ni_count = 0 \/ n1_ref = 0 THEN Infinite ELSE Finite(Rat(ni_count, n1_ref))

\* lines 500-507
calculate_delta_F_i1_initial(ni_counts, n1_ref) ==
    [bin_idx \in DOMAIN ni_counts |-> offset_of_bin(ni_counts[bin_idx], n1_ref)]

\* a combination that leaves out the bins without a finite offset
combine_finite_only(F_ij, delta_F_i1) ==
    [cv_bin_idx \in {b \in DOMAIN F_ij : b \in DOMAIN delta_F_i1 /\ ~delta_F_i1[b].inf} |->
        [j \in DOMAIN F_ij[cv_bin_idx] |->
            Finite(RMul(F_ij[cv_bin_idx][j], delta_F_i1[cv_bin_idx].boltz))]]

\* lines 508-515
combine_free_energies(F_ij, delta_F_i1) ==
    [cv_bin_idx \in DOMAIN F_ij |->
        Bind(IF cv_bin_idx \in DOMAIN delta_F_i1 THEN delta_F_i1[cv_bin_idx] ELSE Infinite,
             LAMBDA delta_Fi1 :
                 IF delta_Fi1.inf
                 THEN [j \in DOMAIN F_ij[cv_bin_idx] |-> Infinite]
                 ELSE [j \in DOMAIN F_ij[cv_bin_idx] |->
                          Finite(RMul(F_ij[cv_bin_idx][j], delta_Fi1.boltz))])]

\* the CV bins and library counts the calculator is called with
Bins == 0..(NumBins - 1)
Dictionaries(V) == UNION {[K -> V] : K \in SUBSET Bins}

Row(a, b, c) == (toLower :> a @@ stay :> b @@ toHigher :> c)
Tiny == <<1, Pow2(30)>>

\* collection matrices walkers return (line 477).  With 2 stages: one
\* round trip at zero energy; one round trip whose way up had weight 2^-30;
\* no attempt accepted.  With 3 stages: the four forced cycles; a way up
\* blocked by an overlap at stage 1; one accepted attempt.
ReturnedMatrices(M) ==
    IF M = 2
    THEN << (0 :> Row(Zero, Zero, One) @@ 1 :> Row(Half, Half, Zero)),
            (0 :> Row(Zero, RSub(One, Tiny), Tiny) @@ 1 :> Row(One, Zero, Zero)),
            (0 :> Row(Zero, <<3, 4>>, <<1, 4>>) @@ 1 :> Row(Zero, Zero, Zero)) >>
    ELSE << (0 :> Row(Zero, Zero, One) @@ 1 :> Row(Half, Half, One) @@
             2 :> Row(Half, Half, Zero)),
            (0 :> Row(Zero, Zero, One) @@ 1 :> Row(Zero, One, Zero) @@
             2 :> Row(Zero, Zero, Zero)),
            (0 :> Row(Zero, Zero, One) @@ 1 :> Row(Zero, Zero, Zero) @@
             2 :> Row(Zero, Zero, Zero)) >>

\* the calculator's arguments: any subset of the bins has a returned
\* walker, any subset has a library count, the reference count is any count
InitCalculator ==
    /\ ObjectInit
    /\ random_state = AnyGenerator
    /\ sim_config.num_growth_stages \in {2, 3}
    /\ sim_config.num_solvent_particles = 0
    /\ sim_config.solvent_sweeps_per_gee_attempt = 1
    /\ sim_config.eta_update_frequency = 1
    /\ sim_config.eta_damping_factor = Half
    /\ current_polymer_lib_entry = 1
    /\ growth_phase = TRUE
    /\ num_polymer_selections = 1
    /\ last_load = "none"
    /\ sweep_idx = 0
    /\ move_idx = 0
    /\ accepted_this_sweep = 0
    /\ p_idx_this_sweep = <<>>
    /\ run_stage = "prod"
    /\ outer_cycle = 0
    /\ pc = "profiles"
    /\ \E K \in SUBSET Bins :
           all_C_i_condensed_dict =
               [b \in K |-> ReturnedMatrices(sim_config.num_growth_stages)[(b % 3) + 1]]
    /\ ni_counts_per_bin_dict \in Dictionaries(0..MaxCount)
    /\ n1_count_ref_bin \in 0..MaxCount
    /\ F_ij_minus_F_i1_all_bins_dict = <<>>
    /\ delta_F_i1_initial_dict = <<>>
    /\ final_delta_F_profiles = <<>>

\* lines 625-626, for every bin whose walker returned
IntraProfiles ==
    /\ pc = "profiles"
    /\ F_ij_minus_F_i1_all_bins_dict' =
          [b \in DOMAIN all_C_i_condensed_dict |->
              calculate_F_i_j_minus_F_i_1(all_C_i_condensed_dict[b],
                                          sim_config.num_growth_stages)]
    /\ pc' = "offsets"
    /\ UNCHANGED <<sim_config, objectVars, run_stage, outer_cycle, sweep_idx, move_idx,
                   accepted_this_sweep, p_idx_this_sweep, growth_phase, num_polymer_selections, last_load,
                   all_C_i_condensed_dict, ni_counts_per_bin_dict, n1_count_ref_bin,
                   delta_F_i1_initial_dict, final_delta_F_profiles>>
    /\ UNCHANGED random_state

\* line 648
InterBinOffsets ==
    /\ pc = "offsets"
    /\ delta_F_i1_initial_dict' =
          calculate_delta_F_i1_initial(ni_counts_per_bin_dict, n1_count_ref_bin)
    /\ pc' = "combine"
    /\ UNCHANGED <<sim_config, objectVars, run_stage, outer_cycle, sweep_idx, move_idx,
                   accepted_this_sweep, p_idx_this_sweep, growth_phase, num_polymer_selections, last_load,
                   all_C_i_condensed_dict, ni_counts_per_bin_dict, n1_count_ref_bin,
                   F_ij_minus_F_i1_all_bins_dict, final_delta_F_profiles>>
    /\ UNCHANGED random_state

\* line 651
Combine ==
    /\ pc = "combine"
    /\ final_delta_F_profiles' =
          combine_free_energies(F_ij_minus_F_i1_all_bins_dict, delta_F_i1_initial_dict)
    /\ pc' = "analysed"
    /\ UNCHANGED <<sim_config, objectVars, run_stage, outer_cycle, sweep_idx, move_idx,
                   accepted_this_sweep, p_idx_this_sweep, growth_phase, num_polymer_selections, last_load,
                   all_C_i_condensed_dict, ni_counts_per_bin_dict, n1_count_ref_bin,
                   F_ij_minus_F_i1_all_bins_dict, delta_F_i1_initial_dict>>
    /\ UNCHANGED random_state

NextCalculator ==
    \/ IntraProfiles
    \/ InterBinOffsets
    \/ Combine

SpecCalculator == InitCalculator /\ [][NextCalculator]_vars

\* ------------------------------ run_simulation_main_logic, lines 581-611
\* The loop over the CV bins builds and runs one walker after the other in
\* one process; all of them call the same generator.  The walker followed
\* here is that of one bin; the bins before it have had their turn.
Streams == [1..StreamLen -> {<<1, 4>>, <<3, 4>>}]

InitBins ==
    /\ ObjectInit
    /\ sim_config.num_growth_stages \in {2, 3}
    /\ sim_config.num_solvent_particles = 0
    /\ sim_config.solvent_sweeps_per_gee_attempt = 1
    /\ sim_config.eta_update_frequency = 1
    /\ sim_config.eta_damping_factor = Half
    /\ current_polymer_lib_entry = 1
    /\ NoAnalysis
    /\ random_state \in {[known |-> TRUE, stream |-> s, pos |-> 0] : s \in Streams}
    /\ growth_phase = TRUE
    /\ num_polymer_selections = 1
    /\ last_load = "none"
    /\ sweep_idx = 0
    /\ move_idx = 0
    /\ accepted_this_sweep = 0
    /\ p_idx_this_sweep = <<>>
    /\ run_stage = "equil"
    /\ outer_cycle = 0
    /\ pc = "main"

\* a call of random.random or random.choice by the walker of a bin
\* processed before this one (lines 309, 375, 585)
EarlierBinDraws ==
    /\ pc = "main"
    /\ random_state.pos < MaxEarlierDraws
    /\ random_state' = AfterCall(random_state)
    /\ UNCHANGED <<sim_config, objectVars, runVars, calculatorVars>>

\* lines 583-610 for this bin: the first conformation is drawn and loaded,
\* the walker built and its run started; a failed load skips the bin
ConstructWalker ==
    /\ pc = "main"
    /\ \E first_lib_entry_for_bin \in
              random_choice(random_state, Len(binned_library_entries_for_this_bin)),
          loaded \in LoadOutcomes :
           /\ random_state' = AfterCall(random_state)
           /\ IF loaded = "ok"
              THEN /\ current_polymer_lib_entry' = first_lib_entry_for_bin
                   /\ polymer_coords' =
                         binned_library_entries_for_this_bin[first_lib_entry_for_bin]
                   /\ pc' = LoopPosition("equil", 0)[3]
              ELSE /\ pc' = "skipped"
                   /\ UNCHANGED <<current_polymer_lib_entry, polymer_coords>>
    /\ UNCHANGED <<sim_config, initial_solvent_config_template, solvent_coords,
                   solvent_is_template, current_growth_stage_idx, eta,
                   collection_matrix_C_i_condensed, visits_per_stage,
                   total_solvent_moves_attempted, total_solvent_moves_accepted,
                   total_gee_moves_attempted, total_gee_moves_accepted,
                   gee_attempt_details_log, run_stage, outer_cycle, sweep_idx, move_idx,
                   accepted_this_sweep, p_idx_this_sweep, growth_phase, num_polymer_selections, last_load,
                   calculatorVars>>

NextBins ==
    \/ EarlierBinDraws
    \/ ConstructWalker
    \/ SweepNoSolvent
    \/ AttemptStep
    \/ VisitStep
    \/ PhaseStep
    \/ EtaStep

SpecBins == InitBins /\ [][NextBins]_vars

\* =============================================================== claims
M_stages == sim_config.num_growth_stages

\* the attempts the run has made while the walker was at stage j
AttemptsFrom(j) ==
    Cardinality({i \in 1..Len(gee_attempt_details_log) :
                    gee_attempt_details_log[i].from_j = j})

\* C1: after any sequence of outer cycles, for every stage j the sum of row j
\* of the collection matrix equals the number of transition attempts made
\* while the walker was at stage j (all of them together the attempts
\* counted), and no row sum decreases in any step.
C1_RowSumsCountAttempts ==
    /\ [](/\ \A j \in Stages(M_stages) :
               RowSum(collection_matrix_C_i_condensed, j) = <<AttemptsFrom(j), 1>>
          /\ pc # "error" => Len(gee_attempt_details_log) = total_gee_moves_attempted)
    /\ [][\A j \in Stages(M_stages) :
             RLeq(RowSum(collection_matrix_C_i_condensed, j),
                  RowSum(collection_matrix_C_i_condensed', j))]_vars

\* a stage has taken two attempts, one of them with a fractional weight
C1_Witness ==
    \E j \in Stages(M_stages) :
        /\ AttemptsFrom(j) >= 2
        /\ collection_matrix_C_i_condensed[j][stay][2] > 1
        /\ pc = "visit"


\* C2: in every reachable state of a run (M >= 2) the stage index lies in
\* 0..M-1, the attempt about to be made and every attempt made targets a
\* stage in 0..M-1 (never -1, never M), and the toLower entry of row 0 and
\* the toHigher entry of row M-1 are 0.
C2_StageAndTargetsInRange ==
    /\ current_growth_stage_idx \in Stages(M_stages)
    /\ pc = "attempt" =>
           k_target_for_biased_walk(M_stages, current_growth_stage_idx, growth_phase)
               \in Stages(M_stages)
    /\ \A i \in 1..Len(gee_attempt_details_log) :
           /\ gee_attempt_details_log[i].from_j \in Stages(M_stages)
           /\ gee_attempt_details_log[i].to_k \in Stages(M_stages)
    /\ collection_matrix_C_i_condensed[0][toLower] = Zero
    /\ collection_matrix_C_i_condensed[M_stages - 1][toHigher] = Zero

\* a run of three stages that has been to the top stage, attempted to come
\* down from it, and stands at stage 0 again
C2_Witness ==
    /\ M_stages = 3
    /\ current_growth_stage_idx = 0
    /\ collection_matrix_C_i_condensed[M_stages - 1][toLower] # Zero
    /\ pc = "attempt"

\* the first attempts of the run all had zero energy difference, eta 1 at
\* both stages, and were accepted
ForcedAcceptsAtZeroEnergy ==
    /\ M_stages = 3
    /\ Len(gee_attempt_details_log) \in 1..4
    /\ \A i \in 1..Len(gee_attempt_details_log) :
           /\ gee_attempt_details_log[i].delta_U = EZero
           /\ gee_attempt_details_log[i].eta_j = One
           /\ gee_attempt_details_log[i].eta_k = One
           /\ gee_attempt_details_log[i].accepted

\* C3: with M = 3, zero energies, eta all ones and every draw accepting, the
\* walker is at stages 1, 2, 1, 0 after the first, second, third and fourth
\* outer cycle, and after the fourth the collection matrix holds 1 in
\* [0,toHigher] and [1,toHigher], 1/2 in [2,toLower] and [1,toLower], 0 in
\* the other non-stay entries (and the rest of each attempt in stay).
C3_FourForcedCycles ==
    ForcedAcceptsAtZeroEnergy =>
        /\ current_growth_stage_idx = <<1, 2, 1, 0>>[Len(gee_attempt_details_log)]
        /\ Len(gee_attempt_details_log) = 4 =>
               collection_matrix_C_i_condensed =
                   (0 :> (toLower :> Zero @@ stay :> Zero @@ toHigher :> One) @@
                    1 :> (toLower :> Half @@ stay :> Half @@ toHigher :> One) @@
                    2 :> (toLower :> Half @@ stay :> Half @@ toHigher :> Zero))

\* the fourth forced cycle has made its attempt
C3_Witness ==
    /\ ForcedAcceptsAtZeroEnergy
    /\ Len(gee_attempt_details_log) = 4
    /\ pc = "visit"

\* min(1, (eta_k / eta_j) * exp(-beta * dU + c)), c in units of ln 2; the
\* exponential is 0.0 below the double's range and the minimum is 1 above it
AcceptanceProbability(eta_j, eta_k, dU, c) ==
    LET x == RSub(<<c, 1>>, RDiv(dU.val, <<KTLn2, 1>>))
    IN  IF dU.pen > 0 \/ (dU.pen = 0 /\ RLess(x, <<-30, 1>>)) THEN Zero
        ELSE IF dU.pen < 0 \/ RLess(<<30, 1>>, x) THEN One
        ELSE IF x[1] >= 0 THEN RMin(One, RMul(RDiv(eta_k, eta_j), <<Pow2(x[1]), 1>>))
        ELSE RMin(One, RMul(RDiv(eta_k, eta_j), <<1, Pow2(-x[1])>>))

\* C4: right after every attempt from j with candidate k (its entry e is the
\* last of the log), the acceptance probability it computed is
\* p = min(1, (eta[k]/eta[j]) * exp(-beta*dU + c)); it was accepted only with
\* p > 0 and rejected only with p < 1; the stage is k if it was accepted and j
\* if not; and with dU = 0, eta[k] = eta[j] and c = 0, p is exactly 1 and the
\* attempt was accepted.
C4_AcceptanceProbability ==
    pc = "visit" =>
        \E e \in {gee_attempt_details_log[Len(gee_attempt_details_log)]} :
            /\ e.p_acc_biased_walk =
                   AcceptanceProbability(e.eta_j, e.eta_k, e.delta_U, e.log2_corr_applied)
            /\ e.accepted => RLess(Zero, e.p_acc_biased_walk)
            /\ ~e.accepted => RLess(e.p_acc_biased_walk, One)
            /\ (e.delta_U = EZero /\ e.eta_j = e.eta_k /\ e.log2_corr_applied = 0)
                   => (e.p_acc_biased_walk = One /\ e.accepted)
            /\ current_growth_stage_idx = IF e.accepted THEN e.to_k ELSE e.from_j

\* an attempt between two inner stages (no correction) at zero energy
\* difference and equal eta has been made
C4_Witness ==
    /\ pc = "visit"
    /\ LET e == gee_attempt_details_log[Len(gee_attempt_details_log)]
       IN  /\ e.delta_U = EZero /\ e.eta_j = e.eta_k /\ e.log2_corr_applied = 0
           /\ e.accepted /\ current_growth_stage_idx = e.to_k


\* C5: an attempt made with phase Growing at stage M-1, or with phase
\* Shrinking at stage 0 (no candidate neighbour), adds exactly 1 to the stay
\* entry of row j, leaves the stage unchanged, and completes normally
\* reporting "not accepted": it does not end in an error.
C5_NoCandidateAttemptCompletes ==
    [][(/\ pc = "api"
        /\ total_gee_moves_attempted' = total_gee_moves_attempted + 1
        /\ k_target_for_biased_walk(M_stages, current_growth_stage_idx, growth_phase) = -1
        /\ ~TotalSystemEnergy(sim_config, polymer_coords, solvent_coords,
                              current_growth_stage_idx).err)
       => (/\ collection_matrix_C_i_condensed' =
                 [collection_matrix_C_i_condensed EXCEPT
                     ![current_growth_stage_idx][stay] = RAdd(@, One)]
           /\ current_growth_stage_idx' = current_growth_stage_idx
           /\ total_gee_moves_accepted' = total_gee_moves_accepted
           /\ pc' = "api")]_vars


\* C6: the walker starts at stage 0 in phase Growing; the phase changes from
\* Growing to Shrinking exactly in a cycle whose post-attempt stage is M-1,
\* and from Shrinking to Growing exactly in a cycle whose post-attempt stage
\* is 0; nothing else changes it, and it is the same in the first production
\* cycle as at the end of the last equilibration cycle.
C6_PhaseTurnsAtTheEnds ==
    /\ current_growth_stage_idx = 0
    /\ growth_phase = TRUE
    /\ [][/\ (growth_phase /\ ~growth_phase') =>
               (pc = "phase" /\ current_growth_stage_idx = M_stages - 1)
          /\ (~growth_phase /\ growth_phase') =>
               (pc = "phase" /\ current_growth_stage_idx = 0)
          /\ (pc = "phase" /\ growth_phase /\ current_growth_stage_idx = M_stages - 1) =>
               ~growth_phase'
          /\ (pc = "phase" /\ ~growth_phase /\ current_growth_stage_idx = 0) =>
               growth_phase'
          /\ run_stage' # run_stage => growth_phase' = growth_phase]_vars

\* production starts with a walker that is Shrinking
C6_Witness ==
    /\ run_stage = "prod" /\ outer_cycle = 0 /\ pc = "sweep" /\ sweep_idx = 0 /\ move_idx = 0
    /\ ~growth_phase
    /\ Len(gee_attempt_details_log) = sim_config.mc_equilibration_cycles

\* C7: when a Shrinking walker's post-attempt stage is 0 and the load
\* succeeds, the polymer becomes one of the bin's library entries, the solvent
\* becomes a copy of the run-start template (a configuration of
\* num_solvent_particles particles when the template is empty and solvent is
\* configured, none otherwise) and the phase Growing, while the collection
\* matrix, eta, the visit histogram and the stage stay as they are; and no
\* step at all changes the stored template.
C7_ReselectFrame ==
    [][/\ initial_solvent_config_template' = initial_solvent_config_template
       /\ (pc = "phase" /\ ~growth_phase /\ current_growth_stage_idx = 0 /\ last_load' = "ok") =>
            /\ current_polymer_lib_entry' \in 1..Len(binned_library_entries_for_this_bin)
            /\ polymer_coords' = binned_library_entries_for_this_bin[current_polymer_lib_entry']
            /\ IF Len(initial_solvent_config_template) > 0
               THEN solvent_coords' = initial_solvent_config_template
               ELSE solvent_coords' \in SolventConfigs(sim_config.num_solvent_particles)
            /\ ~solvent_is_template'
            /\ growth_phase'
            /\ UNCHANGED <<collection_matrix_C_i_condensed, eta, visits_per_stage,
                           current_growth_stage_idx>>]_vars

\* after a reselection that copied the template, a solvent move has been
\* accepted
C7_Witness ==
    /\ num_polymer_selections >= 2
    /\ Len(initial_solvent_config_template) > 0
    /\ solvent_coords # initial_solvent_config_template
    /\ pc = "attempt"


\* the cycle at hand ends with an eta re-estimation (lines 447-448, 467-468)
EtaUpdateDue ==
    pc = "eta" /\ outer_cycle > 0 /\ outer_cycle % eta_upd_outer_freq = 0

\* (1 - d) * x + d
DampedTowardsOne(x) ==
    RAdd(RMul(RSub(One, sim_config.eta_damping_factor), x), sim_config.eta_damping_factor)

\* C8 as stated: immediately after every eta re-estimation the smallest
\* entry of eta equals 1.
C8_MinimumIsOneAfterUpdate ==
    [][EtaUpdateDue => VecMin(eta', M_stages - 1) = One]_vars

\* C8 as the code has it: the re-estimated weights are scaled to a smallest
\* entry of 1 before they are damped into eta, so immediately after every
\* re-estimation every entry of eta is at least (1 - d) * (its value before)
\* + d, with equality for some stage; the smallest entry is 1 when eta was
\* all ones before and can exceed 1 otherwise.
C8_DampedTowardsMinimumOne ==
    [][EtaUpdateDue =>
          /\ \A j \in Stages(M_stages) : RLeq(DampedTowardsOne(eta[j]), eta'[j])
          /\ \E j \in Stages(M_stages) : eta'[j] = DampedTowardsOne(eta[j])
          /\ eta = OnesVector(M_stages) => VecMin(eta', M_stages - 1) = One]_vars

\* the run has ended with a re-estimation in its last cycle, and the smallest
\* entry of eta is above 1
C8_Witness ==
    /\ pc = "done"
    /\ eta_upd_outer_freq = 1
    /\ RLess(One, VecMin(eta, M_stages - 1))

\* C9: in every reachable state (d in (0,1)) every entry of eta is at least
\* 1, hence positive, and whenever an attempt is about to be made the
\* acceptance computation's fallback for a near-zero eta[j] or eta ratio
\* cannot be taken for any pair of stages.
C9_EtaAtLeastOne ==
    /\ RLess(Zero, sim_config.eta_damping_factor)
    /\ RLess(sim_config.eta_damping_factor, One)
    /\ \A j \in Stages(M_stages) : RLeq(One, eta[j])
    /\ pc = "attempt" =>
           \A j, k \in Stages(M_stages) :
               /\ GtEps12(<<Abs(eta[j][1]), eta[j][2]>>)
               /\ GtEps12(RDiv(eta[k], eta[j]))

\* an attempt is about to use an eta that two re-estimations have shaped
C9_Witness ==
    /\ pc = "attempt"
    /\ run_stage = "prod" /\ outer_cycle = 2
    /\ eta_upd_outer_freq = 1
    /\ \E j \in Stages(M_stages) : RLess(<<2, 1>>, eta[j])

\* eta vectors another walker could hold
OtherEtas ==
    {OnesVector(M_stages),
     [j \in Stages(M_stages) |-> <<j + 1, 1>>],
     [j \in Stages(M_stages) |-> <<2 * (M_stages - j) + 1, 2>>]}

\* C10: what an attempt adds to the collection matrix depends on neither eta
\* nor the acceptance draw: whatever the draw, the matrix after the attempt is
\* the one a walker in the same stage, phase, polymer and solvent
\* configuration with any other eta vector computes.
C10_WeightsIgnoreEtaAndDraw ==
    [][(pc = "attempt" /\ pc' = "visit") =>
          \A other \in OtherEtas :
              collection_matrix_C_i_condensed' =
                  AttemptComputation(sim_config, polymer_coords, solvent_coords, other,
                                     collection_matrix_C_i_condensed,
                                     current_growth_stage_idx, growth_phase).C_new]_vars

\* an attempt between stages of different eta has added a fractional weight
\* that is not its acceptance probability
C10_Witness ==
    /\ pc = "visit"
    /\ LET e == gee_attempt_details_log[Len(gee_attempt_details_log)]
       IN  /\ e.eta_j # e.eta_k
           /\ RLess(Zero, e.factor_for_Ci) /\ RLess(e.factor_for_Ci, One)
           /\ e.p_acc_biased_walk # e.factor_for_Ci


\* the outer cycles of a run: lines 431 and 451
CycleBudget == sim_config.mc_equilibration_cycles + sim_config.mc_production_cycles

RECURSIVE MatrixSum(_, _)
MatrixSum(C, n) == IF n = 0 THEN RowSum(C, 0) ELSE RAdd(RowSum(C, n), MatrixSum(C, n - 1))
RECURSIVE HistogramSum(_, _)
HistogramSum(v, n) == IF n = 0 THEN v[0] ELSE v[n] + HistogramSum(v, n - 1)

\* what the run has counted when it returns (line 477)
ReturnedWithBudget ==
    pc = "done" =>
        /\ total_gee_moves_attempted = CycleBudget
        /\ HistogramSum(visits_per_stage, M_stages - 1) = CycleBudget
        /\ Len(gee_attempt_details_log) = CycleBudget
        /\ MatrixSum(collection_matrix_C_i_condensed, M_stages - 1) = <<CycleBudget, 1>>
        /\ total_gee_moves_accepted <= CycleBudget

\* C11: a run with E equilibration and P production cycles always reaches
\* its return (its two loops are bounded, so it does unless a step raises),
\* and on return the attempt counter, the sum of the visit histogram, the
\* length of the log and the sum of the collection matrix are E+P and the
\* accepted-attempt counter is at most E+P.
C11_ReturnsAfterBudget ==
    /\ pc # "error"
    /\ ReturnedWithBudget


\* the offsets have been computed from the arguments still in place
OffsetsComputed == pc \in {"combine", "analysed"}

\* F < 0, F = 0, F > 0 for a finite free energy held as exp(-beta * F)
IsNegative(x) == ~x.inf /\ RLess(One, x.boltz)
IsZero(x) == ~x.inf /\ x.boltz = One
IsPositive(x) == ~x.inf /\ RLess(x.boltz, One)

\* C12: calculate_delta_F_i1_initial returns one entry for every bin of its
\* input map: +infinity when the bin's count or the reference count is 0,
\* otherwise -(1/beta) * ln(n_i / n_ref), whose Boltzmann factor times n_ref
\* is n_i; so a bin with the reference count has offset 0, a bin with more
\* conformations a negative offset and a bin with fewer a positive one.
C12_InterBinOffsets ==
    OffsetsComputed =>
        /\ DOMAIN delta_F_i1_initial_dict = DOMAIN ni_counts_per_bin_dict
        /\ \A b \in DOMAIN ni_counts_per_bin_dict :
               \E n \in {ni_counts_per_bin_dict[b]}, d \in {delta_F_i1_initial_dict[b]} :
                   /\ d.inf <=> (n = 0 \/ n1_count_ref_bin = 0)
                   /\ ~d.inf => RMul(d.boltz, <<n1_count_ref_bin, 1>>) = <<n, 1>>
                   /\ (n = n1_count_ref_bin /\ n > 0) => IsZero(d)
                   /\ (n > n1_count_ref_bin /\ n1_count_ref_bin > 0) => IsNegative(d)
                   /\ (n < n1_count_ref_bin /\ n > 0) => IsPositive(d)

\* the offsets of three bins with 1, 2 and 3 conformations against a
\* reference count of 2 have been computed
C12_Witness ==
    /\ OffsetsComputed
    /\ n1_count_ref_bin = 2
    /\ DOMAIN ni_counts_per_bin_dict = Bins
    /\ \A n \in 1..3 : \E b \in Bins : ni_counts_per_bin_dict[b] = n
    /\ \E b \in Bins : IsPositive(delta_F_i1_initial_dict[b])
    /\ \E b \in Bins : IsNegative(delta_F_i1_initial_dict[b])


\* the offset combine_free_energies finds for a bin: absent counts as +inf
OffsetFound(b) ==
    IF b \in DOMAIN delta_F_i1_initial_dict THEN delta_F_i1_initial_dict[b] ELSE Infinite

\* C13: combine_free_energies returns a profile for exactly the bins that
\* have an intra-bin profile; each stage of it is the intra-bin value plus
\* the bin's offset (the product of their Boltzmann factors) when the offset
\* is finite, and +infinity when the offset is infinite or absent; the call
\* leaves the intra-bin profiles as they were.  With a reference count of 0
\* every combined profile is +infinity at every stage, and every returned
\* walker still has its intra-bin profile.
C13_CombinedProfiles ==
    /\ [](pc = "analysed" =>
            /\ DOMAIN final_delta_F_profiles = DOMAIN F_ij_minus_F_i1_all_bins_dict
            /\ \A b \in DOMAIN F_ij_minus_F_i1_all_bins_dict :
                   /\ DOMAIN final_delta_F_profiles[b] = Stages(M_stages)
                   /\ \A j \in Stages(M_stages) :
                          \E f \in {final_delta_F_profiles[b][j]} :
                              IF OffsetFound(b).inf THEN f.inf
                              ELSE /\ ~f.inf
                                   /\ f.boltz = RMul(F_ij_minus_F_i1_all_bins_dict[b][j],
                                                     OffsetFound(b).boltz)
            /\ n1_count_ref_bin = 0 =>
                   /\ \A b \in DOMAIN final_delta_F_profiles :
                          \A j \in Stages(M_stages) : final_delta_F_profiles[b][j].inf
                   /\ DOMAIN F_ij_minus_F_i1_all_bins_dict = DOMAIN all_C_i_condensed_dict)
    /\ [][pc = "combine" =>
              F_ij_minus_F_i1_all_bins_dict' = F_ij_minus_F_i1_all_bins_dict]_vars

\* three profiles have been combined: bin 0, whose profile is not flat, with
\* a finite non-zero offset, one bin with an infinite offset and one bin
\* with no offset at all
C13_Witness ==
    /\ pc = "analysed"
    /\ DOMAIN F_ij_minus_F_i1_all_bins_dict = Bins
    /\ 0 \in DOMAIN delta_F_i1_initial_dict
    /\ IsNegative(delta_F_i1_initial_dict[0])
    /\ F_ij_minus_F_i1_all_bins_dict[0][1] # One
    /\ final_delta_F_profiles[0][1].boltz # F_ij_minus_F_i1_all_bins_dict[0][1]
    /\ \E b \in Bins : b \in DOMAIN delta_F_i1_initial_dict /\ delta_F_i1_initial_dict[b].inf
    /\ \E b \in Bins : b \notin DOMAIN delta_F_i1_initial_dict


\* C14: when the load of a reselection event fails, the walker keeps its
\* polymer conformation and its current solvent configuration, the phase
\* still becomes Growing, the collection matrix is as it was, and the run
\* goes on with the rest of the cycle (its eta step) and the cycles after
\* it: the failure does not end the run.
C14_FailedLoadKeepsWalker ==
    [][(pc = "phase" /\ ~growth_phase /\ current_growth_stage_idx = 0 /\ last_load' = "failed")
       => (/\ polymer_coords' = polymer_coords
           /\ current_polymer_lib_entry' = current_polymer_lib_entry
           /\ solvent_coords' = solvent_coords
           /\ collection_matrix_C_i_condensed' = collection_matrix_C_i_condensed
           /\ growth_phase' = TRUE
           /\ pc' = "eta"
           /\ run_stage' = run_stage
           /\ outer_cycle' = outer_cycle
           /\ num_polymer_selections' = num_polymer_selections)]_vars

\* after a failed load the run has gone on to the attempt of the next cycle,
\* with the solvent particle away from where the template has it
C14_Witness ==
    /\ last_load = "failed"
    /\ pc = "attempt"
    /\ growth_phase = TRUE
    /\ Len(solvent_coords) = 1
    /\ solvent_coords # initial_solvent_config_template


\* the number the walker's own generator gives at its n-th call (from 0):
\* the stream of the seed, advanced by nothing but the walker's own calls
OwnUniform(n) == random_state.stream[(n % Len(random_state.stream)) + 1]

\* C15: the walkers of different bins share no mutable state: every random
\* draw of a walker comes from the walker's own generator, so its results
\* do not depend on what the walkers of other bins have drawn.  For the
\* first two attempts of a run (one call for the first conformation and
\* one call per attempt precede): the attempt is accepted exactly when the
\* number at the walker's own position of the stream is below its
\* acceptance probability.
C15_DrawsFromOwnGenerator ==
    [][(pc = "attempt" /\ pc' = "visit" /\ total_gee_moves_attempted <= 1)
       => \E e \in {gee_attempt_details_log'[Len(gee_attempt_details_log')]} :
              e.accepted <=>
                  RLess(OwnUniform(1 + total_gee_moves_attempted), e.p_acc_biased_walk)]_vars


\* every solvent position moved by n box lengths along the axis
Translated(solvent, n) == [k \in 1..Len(solvent) |-> solvent[k] + n * box_side_length]

\* the two terms of get_total_system_energy at a stage of the walker
PolymerSolventTerm(solvent, stage_idx) ==
    calculate_polymer_solvent_interaction_c4(polymer_coords, solvent,
        lambda_values(M_stages, stage_idx), eps_ms, sigma_ms)
SolventSolventTerm(solvent) == calculate_solvent_solvent_energy_c4(solvent, eps_ss, sigma_ss)

\* the pair energies the 32-bit rationals hold exactly
PairEnergyHeld(r_sq, lambda_val) ==
    \/ r_sq[1] <= 4
    \/ lambda_val = Zero
    \/ r_sq[1] = 9 /\ lambda_val = One
    \/ r_sq[1] = 16 /\ lambda_val = Half
EnergiesHeld(solvent, stage_idx) ==
    \A i \in 1..Len(polymer_coords), k \in 1..Len(solvent) :
        PairEnergyHeld(calculate_distance_sq(polymer_coords[i], solvent[k]),
                       lambda_values(M_stages, stage_idx))

\* C16: at every stage, moving all solvent positions by the same whole
\* number of box lengths leaves the total system energy as it was, in its
\* solvent-solvent term and in its polymer-solvent term.
C16_PeriodicInvariance ==
    \A n \in {-1, 1} :
        \E moved \in {Translated(solvent_coords, n)} :
            /\ SolventSolventTerm(moved) = SolventSolventTerm(solvent_coords)
            /\ \A stage_idx \in Stages(M_stages) :
                   EnergiesHeld(moved, stage_idx) =>
                       /\ PolymerSolventTerm(moved, stage_idx) =
                              PolymerSolventTerm(solvent_coords, stage_idx)
                       /\ TotalSystemEnergy(sim_config, polymer_coords, moved, stage_idx) =
                              TotalSystemEnergy(sim_config, polymer_coords, solvent_coords,
                                                stage_idx)

\* a polymer monomer and a solvent particle at the same point
Overlap(polymer, solvent) ==
    \E i \in 1..Len(polymer), k \in 1..Len(solvent) : polymer[i] = solvent[k]

\* C17: at coupling 0 (stage 0) the soft-core polymer-solvent energy is 0
\* for every configuration, overlapping ones included, so the total energy
\* at stage 0 is the solvent-solvent energy alone.
C17_DecoupledAtStageZero ==
    /\ lambda_values(M_stages, 0) = Zero
    /\ \A solvent \in {solvent_coords, initial_solvent_config_template} :
           /\ PolymerSolventTerm(solvent, 0) = EZero
           /\ TotalSystemEnergy(sim_config, polymer_coords, solvent, 0) =
                  SolventSolventTerm(solvent)

C17_Witness ==
    /\ Overlap(polymer_coords, solvent_coords)
    /\ current_growth_stage_idx = 0
    /\ total_gee_moves_attempted >= 1
    /\ TotalSystemEnergy(sim_config, polymer_coords, solvent_coords, 0) = EZero

\* the boundary correction of a transition j -> k among M stages, in units
\* of ln 2
BoundaryCorrection(M, j, k) ==
    IF (j = 0 /\ k = 1) \/ (j = M - 2 /\ k = M - 1) THEN 1
    ELSE IF (j = 1 /\ k = 0) \/ (j = M - 1 /\ k = M - 2) THEN -1
    ELSE 0

\* min(1, exp(-beta*dU + c)): 1 when the exponent is not negative, 0 when
\* dU holds the overlap penalty, else the power of two
Weight(dU, c) ==
    IF dU.pen > 0 THEN Zero
    ELSE IF dU.pen < 0 \/ LogFactor(dU, c)[1] >= 0 THEN One
    ELSE ExpNegative(LogFactor(dU, c))

\* the step of an attempt toward the candidate stage k
AttemptToward(k) ==
    /\ pc = "attempt"
    /\ pc' = "visit"
    /\ k = (IF growth_phase THEN current_growth_stage_idx + 1 ELSE current_growth_stage_idx - 1)

\* C18: an attempt from stage j toward the candidate k adds
\* w = min(1, exp(-beta*dU + c)) to the column of row j in the direction of
\* k and 1 - w to the stay column of row j, with c = ln 2 for 0 -> 1 and
\* (M-2) -> (M-1), -ln 2 for 1 -> 0 and (M-1) -> (M-2), 0 otherwise; w is in
\* [0, 1], no other entry changes, and no entry of the collection matrix
\* ever decreases or becomes negative.
C18_CollectionMatrixUpdate ==
    [][/\ \A k \in Stages(M_stages) : AttemptToward(k) =>
              \E j \in {current_growth_stage_idx} :
              \E w \in {Weight(ESub(TotalSystemEnergy(sim_config, polymer_coords, solvent_coords, k),
                                     TotalSystemEnergy(sim_config, polymer_coords, solvent_coords, j)),
                                BoundaryCorrection(M_stages, j, k))} :
              \E C \in {collection_matrix_C_i_condensed} :
                  /\ RLeq(Zero, w) /\ RLeq(w, One)
                  /\ collection_matrix_C_i_condensed' =
                         [C EXCEPT ![j] = [@ EXCEPT
                             ![IF k > j THEN toHigher ELSE toLower] = RAdd(@, w),
                             ![stay] = RAdd(@, RSub(One, w))]]
       /\ \A r \in Stages(M_stages), col \in 0..2 :
              /\ RLeq(collection_matrix_C_i_condensed[r][col],
                      collection_matrix_C_i_condensed'[r][col])
              /\ RLeq(Zero, collection_matrix_C_i_condensed'[r][col])]_vars

\* an attempt has added a weight strictly between 0 and 1
C18_Witness ==
    /\ pc = "visit"
    /\ \E e \in {gee_attempt_details_log[Len(gee_attempt_details_log)]} :
           /\ RLess(Zero, e.factor_for_Ci) /\ RLess(e.factor_for_Ci, One)
           /\ RLess(Zero, collection_matrix_C_i_condensed[e.from_j][stay])
           /\ collection_matrix_C_i_condensed[e.from_j][stay][2] > 1

\* an attempt between two inner stages, which has no boundary correction
InnerAttemptMade ==
    /\ pc = "visit"
    /\ \E e \in {gee_attempt_details_log[Len(gee_attempt_details_log)]} :
           BoundaryCorrection(M_stages, e.from_j, e.to_k) = 0

\* the outer cycles of the run before the current one, equilibration and
\* production counted together
CyclesBefore ==
    IF run_stage = "equil" THEN outer_cycle
    ELSE sim_config.mc_equilibration_cycles + outer_cycle

\* C19: with eta update frequency F, eta is re-estimated once every F outer
\* cycles of the run, counted from the first equilibration cycle through
\* the last production cycle without a restart, whatever the number of
\* solvent sweeps per cycle: the cycle with F, 2F, ... cycles before it ends
\* with a re-estimation and no other cycle does.
C19_EtaUpdateSchedule ==
    [][pc = "eta" =>
          eta' = IF CyclesBefore > 0 /\ CyclesBefore % sim_config.eta_update_frequency = 0
                 THEN update_eta_biasing_factors(collection_matrix_C_i_condensed, eta, sim_config)
                 ELSE eta]_vars

\* the increment of the pair (j, j+1) by the four cases of the fluxes
IncrementOfFluxes(C, j) ==
    Bind(P_j_to_jplus1(C, j), LAMBDA fwd :
    Bind(P_jplus1_to_j(C, j), LAMBDA bwd :
        IF LtEps12(fwd) /\ LtEps12(bwd) THEN [kind |-> "zero", ratio |-> One]
        ELSE IF LtEps12(bwd) THEN [kind |-> "minus20", ratio |-> One]
        ELSE IF LtEps12(fwd) THEN [kind |-> "plus20", ratio |-> One]
        ELSE [kind |-> "log", ratio |-> RDiv(fwd, bwd)]))

\* both fluxes are at least 1e-12 and the forward one is the smaller
ForwardFluxSmaller(C, j) ==
    /\ ~LtEps12(P_j_to_jplus1(C, j))
    /\ ~LtEps12(P_jplus1_to_j(C, j))
    /\ RLess(P_j_to_jplus1(C, j), P_jplus1_to_j(C, j))

\* the eta re-estimation and the profile take the same increment
SameIncrement(C, j) ==
    BoltzmannOfStep(delta_F_step(C, j)) = BoltzmannOfStep(F_diffs_step(C, j))

\* the profile is the running sum of the increments from 0 at stage 0
RunningSum(C, profile) ==
    /\ profile[0] = One
    /\ \A j \in 0..(M_stages - 2) :
           profile[j + 1] = RMul(profile[j], BoltzmannOfStep(F_diffs_step(C, j)))

\* every increment is the one of the four cases, and positive where the
\* forward flux is the smaller one (its Boltzmann factor is below 1)
IncrementsByCases(C) ==
    \A j \in 0..(M_stages - 2) :
        /\ BoltzmannOfStep(F_diffs_step(C, j)) = BoltzmannOfStep(IncrementOfFluxes(C, j))
        /\ ForwardFluxSmaller(C, j) => RLess(BoltzmannOfStep(F_diffs_step(C, j)), One)

\* C20: for every adjacent pair of stages the eta re-estimation and the
\* intra-bin profile compute the same increment from the same collection
\* matrix: 0 when both fluxes are below 1e-12, -20 when only the backward
\* flux is, +20 when only the forward flux is, and -(1/beta) ln(P_fwd/P_bwd)
\* in every other case, so the increment is strictly positive whenever
\* both fluxes are at least 1e-12 and the forward flux is the smaller one;
\* the profile is the running sum of the increments with 0 at stage 0.
C20_IncrementsAgree ==
    pc \in {"offsets", "combine", "analysed"} =>
        \A b \in DOMAIN F_ij_minus_F_i1_all_bins_dict :
            /\ \A j \in 0..(M_stages - 2) : SameIncrement(all_C_i_condensed_dict[b], j)
            /\ RunningSum(all_C_i_condensed_dict[b], F_ij_minus_F_i1_all_bins_dict[b])
            /\ IncrementsByCases(all_C_i_condensed_dict[b])

\* what holds of every profile: the two computations agree and the profile
\* is the running sum
IncrementsAgreeAndSum ==
    pc \in {"offsets", "combine", "analysed"} =>
        \A b \in DOMAIN F_ij_minus_F_i1_all_bins_dict :
            /\ \A j \in 0..(M_stages - 2) : SameIncrement(all_C_i_condensed_dict[b], j)
            /\ RunningSum(all_C_i_condensed_dict[b], F_ij_minus_F_i1_all_bins_dict[b])

\* the steps of an outer cycle that runs `sweeps` solvent sweeps, then one
\* transition attempt, then one count in the visit histogram at the stage
\* the attempt left the walker at
CycleStep(sweeps) ==
    /\ (pc = "sweep" /\ pc' = "attempt") => sweep_idx + 1 = sweeps
    /\ (pc = "sweep" /\ pc' = "sweep" /\ sweep_idx' # sweep_idx) =>
           sweep_idx' = sweep_idx + 1 /\ sweep_idx' < sweeps
    /\ pc' = "attempt" => pc \in {"sweep", "attempt"}
    /\ total_gee_moves_attempted' # total_gee_moves_attempted =>
           /\ pc = "attempt" /\ sweep_idx = 0
           /\ total_gee_moves_attempted' = total_gee_moves_attempted + 1
    /\ (pc = "attempt" /\ pc' # "error") =>
           pc' = "visit" /\ total_gee_moves_attempted' = total_gee_moves_attempted + 1
    /\ visits_per_stage' # visits_per_stage => pc = "visit"
    /\ pc = "visit" =>
           /\ pc' = "phase"
           /\ current_growth_stage_idx' = current_growth_stage_idx
           /\ visits_per_stage' =
                  [visits_per_stage EXCEPT ![current_growth_stage_idx] = @ + 1]
    /\ pc = "eta" => pc' \in {"sweep", "done"} /\ sweep_idx' = 0

\* at the start of a cycle one attempt and one visit have been counted for
\* every cycle before it
CyclesCounted ==
    pc \in {"sweep", "attempt"} =>
        /\ total_gee_moves_attempted = CyclesBefore
        /\ HistogramSum(visits_per_stage, M_stages - 1) = CyclesBefore

\* C21 as stated: every outer cycle, in equilibration and in production,
\* runs exactly S solvent sweeps, S the configured sweeps per attempt, 0
\* included, then makes exactly one transition attempt, then counts one
\* visit at the stage after the attempt; no attempt happens before the
\* sweeps of its cycle are over.
C21_ConfiguredSweepsThenAttempt ==
    [][CycleStep(sim_config.solvent_sweeps_per_gee_attempt)]_vars /\ []CyclesCounted

\* C21 (amended): every outer cycle, in equilibration and in production,
\* runs exactly max(1, S) solvent sweeps (one sweep when S is 0), then
\* makes exactly one transition attempt, then counts one visit at the
\* stage after the attempt; no attempt happens before the sweeps of its
\* cycle are over.
C21_SweepsThenAttempt ==
    [][CycleStep(IF sim_config.solvent_sweeps_per_gee_attempt > 1
                 THEN sim_config.solvent_sweeps_per_gee_attempt ELSE 1)]_vars
        /\ []CyclesCounted

\* a production cycle of a run configured with 0 sweeps has made its
\* attempt and counted its visit
C21_Witness ==
    /\ sim_config.solvent_sweeps_per_gee_attempt = 0
    /\ run_stage = "prod"
    /\ pc = "phase"
    /\ total_gee_moves_attempted = CyclesBefore + 1
    /\ HistogramSum(visits_per_stage, M_stages - 1) = CyclesBefore + 1

\* a step that ends a solvent sweep over at least one particle
SweepCompletes ==
    /\ pc = "sweep"
    /\ Len(solvent_coords) > 0
    /\ pc' # "error"
    /\ pc' = "attempt" \/ sweep_idx' # sweep_idx

\* the attempted-move counter changes only with the first proposal of a
\* sweep, by the number of solvent particles
CountedBySweep ==
    total_solvent_moves_attempted' # total_solvent_moves_attempted =>
        /\ pc = "sweep" /\ move_idx = 0
        /\ total_solvent_moves_attempted' = total_solvent_moves_attempted + Len(solvent_coords)

\* the number of proposals the particle k received
ProposalsTo(proposals, k) == Cardinality({i \in 1..Len(proposals) : proposals[i] = k})

\* C22 as stated: in one solvent sweep over N solvent particles every
\* particle receives exactly one displacement proposal (N proposals, one
\* per particle), and the attempted-move counter increases by N.
C22_OneProposalPerParticle ==
    [][/\ SweepCompletes =>
              /\ Len(p_idx_this_sweep') = Len(solvent_coords)
              /\ \A k \in 1..Len(solvent_coords) : ProposalsTo(p_idx_this_sweep', k) = 1
       /\ CountedBySweep]_vars

\* C22 (amended): in one solvent sweep over N solvent particles exactly N
\* displacement proposals are made, each to one of the N particles (a
\* particle can receive several proposals of a sweep, or none), and the
\* attempted-move counter increases by N.
C22_ProposalsPerSweep ==
    [][/\ SweepCompletes =>
              /\ Len(p_idx_this_sweep') = Len(solvent_coords)
              /\ \A i \in 1..Len(p_idx_this_sweep') :
                     p_idx_this_sweep'[i] \in 1..Len(solvent_coords)
              /\ move_idx = Len(solvent_coords) - 1
       /\ (pc = "sweep" /\ pc' = "sweep" /\ move_idx' # move_idx /\ move_idx' # 0) =>
              /\ move_idx' = move_idx + 1
              /\ Len(p_idx_this_sweep') = move_idx'
       /\ CountedBySweep]_vars

\* a sweep over two particles has ended with both proposals made to the
\* first particle
C22_Witness ==
    /\ pc = "attempt"
    /\ Len(solvent_coords) = 2
    /\ p_idx_this_sweep = <<1, 1>>
    /\ total_solvent_moves_attempted = 2

\* a step of a sweep that makes a proposal and draws for it
ProposalDrawn ==
    /\ pc = "sweep"
    /\ Len(solvent_coords) > 0
    /\ pc' # "error"

\* the draw of the step accepted the proposal
ProposalAccepted ==
    \/ accepted_this_sweep' = accepted_this_sweep + 1
    \/ total_solvent_moves_accepted' = total_solvent_moves_accepted + accepted_this_sweep + 1

\* C23: a solvent sweep leaves the growth stage, the phase, the polymer
\* conformation, eta, the collection matrix and the visit histogram as they
\* were and keeps the number of solvent particles; a rejected move puts the
\* moved particle back where it was, an accepted move changes the position
\* of that one particle only, and the accepted-move counter grows by at
\* most the number of proposals of the sweep.
C23_SweepFrame ==
    [][/\ pc = "sweep" =>
              /\ UNCHANGED <<current_growth_stage_idx, growth_phase, polymer_coords,
                             current_polymer_lib_entry, eta, collection_matrix_C_i_condensed,
                             visits_per_stage>>
              /\ Len(solvent_coords') = Len(solvent_coords)
       /\ ProposalDrawn =>
              \E p \in {p_idx_this_sweep'[Len(p_idx_this_sweep')]} :
                  /\ \A k \in 1..Len(solvent_coords) :
                         k # p => solvent_coords'[k] = solvent_coords[k]
                  /\ ~ProposalAccepted => solvent_coords' = solvent_coords
       /\ total_solvent_moves_accepted' # total_solvent_moves_accepted =>
              /\ SweepCompletes
              /\ total_solvent_moves_accepted' > total_solvent_moves_accepted
              /\ total_solvent_moves_accepted' - total_solvent_moves_accepted
                     <= Len(p_idx_this_sweep')
       /\ accepted_this_sweep' <= move_idx']_vars

\* sweeps over one particle have ended with proposals accepted, a proposal
\* rejected, and the particle away from where it started
C23_Witness ==
    /\ pc = "attempt"
    /\ Len(solvent_coords) = 1
    /\ total_solvent_moves_accepted > 0
    /\ total_solvent_moves_accepted < total_solvent_moves_attempted
    /\ solvent_coords # initial_solvent_config_template

\* 4*eps*(s^2 - s) with s = (sigma^2/r^2)^3, and 1e10 below r^2 = 1e-12
LennardJonesPair(r_sq, epsilon, sigma) ==
    IF LtEps12(r_sq) THEN EPenalty
    ELSE Bind(RDiv(RMul(sigma, sigma), r_sq), LAMBDA q :
         Bind(RMul(q, RMul(q, q)), LAMBDA sr6 :
             Energy(0, RMul(RMul(<<4, 1>>, epsilon), RSub(RMul(sr6, sr6), sr6)))))

\* the sum of the pair energies over a set of unordered pairs, at the
\* minimum-image distances
RECURSIVE LennardJonesSum(_, _)
LennardJonesSum(pairs, solvent) ==
    IF pairs = {} THEN EZero
    ELSE LET ij == CHOOSE x \in pairs : TRUE
         IN  EAdd(LennardJonesPair(MinImageSq(solvent[ij[1]], solvent[ij[2]], box_side_length),
                                   eps_ss, sigma_ss),
                  LennardJonesSum(pairs \ {ij}, solvent))

\* C24: the solvent-solvent energy is a value, never an error, for every
\* configuration of N solvent particles: 0 for N < 2, and otherwise the sum
\* over all N(N-1)/2 unordered pairs of 4*eps*(s^2 - s) with
\* s = (sigma^2/r^2)^3 at the minimum-image squared distance r^2, a pair
\* with r^2 < 1e-12 contributing 1e10 instead.
C24_SolventSolventEnergy ==
    \A solvent \in {solvent_coords, initial_solvent_config_template} :
        /\ ~SolventSolventTerm(solvent).err
        /\ SolventSolventTerm(solvent) =
               LennardJonesSum(PairIndices(Len(solvent)), solvent)

\* what holds of the code: the energy is 0 below two particles and 1e10
\* per pair while all particles are at one point
SolventSolventEnergyWithoutDistance ==
    \A solvent \in {solvent_coords, initial_solvent_config_template} :
        (\A i, k \in 1..Len(solvent) : solvent[i] = solvent[k]) =>
            SolventSolventTerm(solvent) = LennardJonesSum(PairIndices(Len(solvent)), solvent)

\* C25: in the run loop with M >= 2 the walker is never pinned at the start
\* of a transition attempt: Growing implies stage < M-1 and Shrinking
\* implies stage > 0 in every state between cycles, so every attempt of a
\* run has a candidate neighbour and the branch without a candidate is
\* never taken by the run.
C25_NeverPinned ==
    /\ [](pc \in {"sweep", "attempt"} =>
            /\ M_stages >= 2
            /\ growth_phase => current_growth_stage_idx < M_stages - 1
            /\ ~growth_phase => current_growth_stage_idx > 0)
    /\ [][pc = "attempt" =>
              /\ k_target_for_biased_walk(M_stages, current_growth_stage_idx, growth_phase)
                     \in Stages(M_stages)
              /\ pc' = "visit" =>
                     gee_attempt_details_log'[Len(gee_attempt_details_log')].to_k
                         \in Stages(M_stages) \ {current_growth_stage_idx}]_vars

\* a walker that has turned at both ends stands before an attempt
C25_Witness ==
    /\ pc = "attempt"
    /\ growth_phase
    /\ current_growth_stage_idx = 0
    /\ visits_per_stage[M_stages - 1] >= 1
    /\ num_polymer_selections + (IF last_load = "failed" THEN 1 ELSE 0) >= 2

\* the stage the attempt of cycle i left the walker at, by the log
StageAfter(i) ==
    IF gee_attempt_details_log[i].accepted THEN gee_attempt_details_log[i].to_k
    ELSE gee_attempt_details_log[i].from_j

\* cycle i made a Shrinking attempt and ended at stage 0: the cycles that
\* reselect the polymer
ReselectionCycle(i) ==
    /\ gee_attempt_details_log[i].to_k < gee_attempt_details_log[i].from_j
    /\ StageAfter(i) = 0

\* C26: within a run the stage changes by at most 1 per outer cycle, never
\* decreases while Growing and never increases while Shrinking; so the
\* polymer conformation is replaced only in a cycle whose post-attempt
\* stage is 0, and between any two consecutive reselections, and before the
\* first one, the walker has been at stage M-1: every reselection closes a
\* round trip 0 -> M-1 -> 0.
C26_RoundTrips ==
    /\ [](\A i \in 1..Len(gee_attempt_details_log) :
              ReselectionCycle(i) =>
                  \E m \in 1..(i - 1) :
                      /\ StageAfter(m) = M_stages - 1
                      /\ \A n \in m..(i - 1) : ~ReselectionCycle(n))
    /\ [][/\ current_growth_stage_idx' # current_growth_stage_idx =>
                  /\ pc = "attempt"
                  /\ growth_phase => current_growth_stage_idx' = current_growth_stage_idx + 1
                  /\ ~growth_phase => current_growth_stage_idx' = current_growth_stage_idx - 1
          /\ (polymer_coords' # polymer_coords
                  \/ current_polymer_lib_entry' # current_polymer_lib_entry) =>
                  /\ pc = "phase"
                  /\ current_growth_stage_idx = 0
                  /\ last_load' = "ok"
          /\ pc = "phase" =>
                  (last_load' # "none" <=> ReselectionCycle(Len(gee_attempt_details_log)))]_vars

\* a run has reselected twice and holds another conformation than the one
\* it started with
C26_Witness ==
    /\ \E i, n \in 1..Len(gee_attempt_details_log) :
           i < n /\ ReselectionCycle(i) /\ ReselectionCycle(n)
    /\ pc = "eta"
    /\ last_load = "ok"
    /\ num_polymer_selections = 3

\* the squared distances of the polymer-solvent pairs of a configuration
PairDistances(polymer, solvent) ==
    {calculate_distance_sq(polymer[i], solvent[k]) :
        i \in 1..Len(polymer), k \in 1..Len(solvent)}

\* C27: at lambda = 1 (stage M-1, fully coupled) the soft-core pair energy
\* of a polymer-solvent pair equals the standard 12-6 Lennard-Jones pair
\* energy 4*eps*((sigma/r)^12 - (sigma/r)^6) of the standard pair function,
\* for every squared separation r^2 >= 1e-12.
C27_FullyCoupledIsLennardJones ==
    /\ lambda_values(M_stages, M_stages - 1) = One
    /\ \A solvent \in {solvent_coords, initial_solvent_config_template} :
           \A r_sq \in PairDistances(polymer_coords, solvent) :
               ~LtEps12(r_sq) =>
                   calculate_lj_energy_pair_modified_c4(r_sq, One, eps_ms, sigma_ms) =
                       calculate_lj_energy_pair_c3(r_sq, eps_ms, sigma_ms)

\* what holds of the code: the two energies agree at r = sigma, where both
\* are 0
FullyCoupledAgreesAtSigma ==
    \A r_sq \in PairDistances(polymer_coords, solvent_coords) :
        r_sq = RMul(sigma_ms, sigma_ms) =>
            calculate_lj_energy_pair_modified_c4(r_sq, One, eps_ms, sigma_ms) =
                calculate_lj_energy_pair_c3(r_sq, eps_ms, sigma_ms)

====
